---- MODULE Spec2Model ----
(***************************************************************************)
(* A model of the mail-to-CSV converters getMailDataCsv.py (POP3 mailbox)  *)
(* and getMailDataCsvFromEml.py (folder of saved .eml messages): the       *)
(* filter rule engine (tokenize, parse_and_eval, eval_date_token), the     *)
(* address extractor, the per-message batch loop of main() and the         *)
(* extraction of the body of one message.                                  *)
(*                                                                         *)
(* Text is modelled as a sequence of one-character strings.  A rule text   *)
(* is a sequence of chunks: each chunk is a maximal piece of text that is  *)
(* either one token shape of TOKEN_REGEX, a run of whitespace, or a run of *)
(* other characters that holds no token shape.                             *)
(***************************************************************************)
EXTENDS Integers, Sequences, FiniteSets, TLC

VARIABLES
    rule,       \* the rule text: the argument of parse_and_eval, or the [FILTER] rule of the INI file
    rec,        \* the record a directly called parse_and_eval evaluates the rule against
    res_pop3,   \* outcome of getMailDataCsv.parse_and_eval called directly, <<>> before it ran
    res_eml,    \* outcome of getMailDataCsvFromEml.parse_and_eval called directly, <<>> before it ran
    prog,       \* the tool whose main() runs: "pop3", "eml", or "none"
    pc,         \* where main() is: "idle" (not run), "start", "loop", "done", "exit"
    config,     \* the settings read from the INI file, other than the rule
    mailbox,    \* the messages on the POP3 server in message-number order, or the .eml files as found
    state_file, \* the keys in the file of processed UIDLs
    msgno,      \* the loop variable: i of the POP3 loop, the position in sorted(emls) of the EML loop
    already,    \* main(): the keys load_state() returned
    processed_local, \* main(): the keys of the rows written in this run
    csv,        \* the rows written to the CSV file, in order
    log,        \* what else main() did that is visible outside: directories, connections, files, stderr
    mime,       \* the parsed message whose body is extracted, <<>> when none is
    BeautifulSoup, \* whether bs4 could be imported
    fields,     \* the body candidates and the text and html fields of the row, <<>> before extraction
    eml_keys,   \* the keys a directly called make_uidl_for_eml gave for the files, in order
    earlier     \* the earlier runs of getMailDataCsv.py: the mailbox each found and the CSV file it left

engine == <<rule, rec, res_pop3, res_eml>>
batch  == <<prog, pc, config, mailbox, state_file, msgno, already, processed_local, csv, log>>
extraction == <<mime, BeautifulSoup, fields, eml_keys, earlier>>
vars   == <<rule, rec, res_pop3, res_eml, prog, pc, config, mailbox, state_file, msgno, already,
            processed_local, csv, log, mime, BeautifulSoup, fields, eml_keys, earlier>>

----------------------------------------------------------------------------
(* Text                                                                    *)

\* str.lower() on one character
lower(c) ==
    CASE c = "A" -> "a"
      [] c = "B" -> "b"
      [] c = "C" -> "c"
      [] c = "X" -> "x"
      [] c = "D" -> "d"
      [] c = "H" -> "h"
      [] c = "M" -> "m"
      [] OTHER -> c

\* str.lower() on a text
lower_str(s) == [i \in 1..Len(s) |-> lower(s[i])]

\* str.strip() on a text: leading and trailing blanks removed
RECURSIVE lstrip(_)
lstrip(s) == IF s # <<>> /\ Head(s) = " " THEN lstrip(Tail(s)) ELSE s

RECURSIVE rstrip(_)
rstrip(s) == IF s # <<>> /\ s[Len(s)] = " " THEN rstrip(SubSeq(s, 1, Len(s) - 1)) ELSE s

strip(s) == rstrip(lstrip(s))

\* "@" in addr
has_at(s) == \E i \in 1..Len(s) : s[i] = "@"

----------------------------------------------------------------------------
(* Regular expressions (Python's re, as far as the rules of the model use  *)
(* it).  A pattern is a literal with optional ^ and $ anchors; comp is     *)
(* what re.compile does with the pattern text: "ok", "re.error" (e.g. the  *)
(* pattern "[") or "OverflowError" (e.g. "a{99999999999}", which the re    *)
(* module rejects with OverflowError, not re.error).                       *)

Pat(lit, bol, eol) == [lit |-> lit, bol |-> bol, eol |-> eol, comp |-> "ok"]
BadPat      == [lit |-> <<"[">>, bol |-> FALSE, eol |-> FALSE, comp |-> "re.error"]
OverflowPat == [lit |-> <<"{">>, bol |-> FALSE, eol |-> FALSE, comp |-> "OverflowError"]

\* the literal of p occurs in s at 0-based offset i; ic is re.IGNORECASE
match_at(p, s, i, ic) ==
    /\ i + Len(p.lit) <= Len(s)
    /\ \A j \in 1..Len(p.lit) :
          IF ic THEN lower(s[i + j]) = lower(p.lit[j]) ELSE s[i + j] = p.lit[j]
    /\ (p.bol => i = 0)
    /\ (p.eol => i + Len(p.lit) = Len(s))

\* re.search(pattern, s, flags) is not None, for a pattern that compiles
re_search(p, s, ic) == \E i \in 0..Len(s) : match_at(p, s, i, ic)

\* re.match(pattern, s, flags) is not None: the match starts at offset 0
re_match(p, s, ic) == match_at(p, s, 0, ic)

----------------------------------------------------------------------------
(* Dates and times (Python's datetime).  An aware datetime is its local    *)
(* wall clock, d the proleptic Gregorian ordinal of the date (1 is         *)
(* 0001-01-01) and s the second of the day, with off the UTC offset of its *)
(* tzinfo in seconds.  Optional values are sequences: <<>> is None.        *)

SecondsPerDay == 86400
\* datetime.min: ordinal 1 (MINYEAR); datetime.max: 9999-12-31
MinOrdinal == 1
MaxOrdinal == 3652059
\* timedelta.max.days
TimedeltaMaxDays == 999999999
\* JST = timezone(timedelta(hours=9))
JST == 32400

None == <<>>
Some(x) == <<x>>

\* carry of seconds into days, as datetime and timedelta normalise
Norm(d, s) == [d |-> d + (s \div SecondsPerDay), s |-> s % SecondsPerDay]

Dt(d, s, off) == [d |-> d, s |-> s, off |-> off]

\* the UTC instant of an aware datetime
utc(dt) == Norm(dt.d, dt.s - dt.off)

\* comparison of aware datetimes: by UTC instant
instant_lt(x, y) == x.d < y.d \/ (x.d = y.d /\ x.s < y.s)
instant_le(x, y) == x.d < y.d \/ (x.d = y.d /\ x.s <= y.s)
dt_lt(a, b) == instant_lt(utc(a), utc(b))
dt_le(a, b) == instant_le(utc(a), utc(b))

\* timedelta(days=amount) / timedelta(hours=amount) / timedelta(minutes=amount):
\* normalised to days and seconds; exc when the days exceed timedelta.max
timedelta(amount, unit) ==
    LET days == IF unit = "d" THEN amount
                ELSE IF unit = "h" THEN amount \div 24 ELSE amount \div 1440
        secs == IF unit = "d" THEN 0
                ELSE IF unit = "h" THEN (amount % 24) * 3600 ELSE (amount % 1440) * 60
    IN  [days |-> days, secs |-> secs,
         exc |-> IF days > TimedeltaMaxDays THEN "OverflowError" ELSE ""]

\* datetime.now(base_tz), for a clock reading now_utc = [d, s] in UTC
at_offset(n, off) == Dt(n.d, n.s, off)
datetime_now(now_utc, off) == at_offset(Norm(now_utc.d, now_utc.s + off), off)

\* dt - delta: the wall clock moves back; OverflowError ("date value out of
\* range") when the date leaves MinOrdinal..MaxOrdinal
in_range(n, off) ==
    [dt |-> Dt(n.d, n.s, off),
     exc |-> IF n.d < MinOrdinal \/ n.d > MaxOrdinal THEN "OverflowError" ELSE ""]
dt_sub(dt, delta) == in_range(Norm(dt.d - delta.days, dt.s - delta.secs), dt.off)

\* calendar arithmetic of datetime(y, m, d, ...)
is_leap(y) == y % 4 = 0 /\ (y % 100 # 0 \/ y % 400 = 0)
days_in_month(y, m) ==
    IF m = 2 THEN (IF is_leap(y) THEN 29 ELSE 28)
    ELSE IF m \in {4, 6, 9, 11} THEN 30 ELSE 31
days_before_year(y) == (y - 1) * 365 + (y - 1) \div 4 - (y - 1) \div 100 + (y - 1) \div 400
RECURSIVE days_before_month(_, _)
days_before_month(y, m) ==
    IF m <= 1 THEN 0 ELSE days_before_month(y, m - 1) + days_in_month(y, m - 1)
valid_ymd(y, m, d) ==
    /\ y >= 1 /\ y <= 9999
    /\ m >= 1 /\ m <= 12
    /\ d >= 1 /\ d <= days_in_month(y, m)
ymd2ord(y, m, d) == days_before_year(y) + days_before_month(y, m) + d

----------------------------------------------------------------------------
(* Rule text: chunks and tokens                                            *)

\* the right-hand side of a DATE comparison:
\* NOW-<n><unit>, unit as written (d, h, m in either case)
RelRhs(n, unit) == [kind |-> "rel", n |-> n, unit |-> unit]
\* YYYY-MM-DD
DateRhs(y, m, d) == [kind |-> "date", y |-> y, m |-> m, d |-> d]
\* a full ISO timestamp, s the second of the day; tz is None or Some(offset)
IsoRhs(y, m, d, s, tz) == [kind |-> "iso", y |-> y, m |-> m, d |-> d, s |-> s, tz |-> tz]
\* any other run of non-blank characters
JunkRhs == [kind |-> "junk"]

\* A chunk.  k is the token shape ("(", ")", "AND", "OR", "SUBJECT", "FROM",
\* "TO", "CC", "DATE"), "WS" for blanks or "JUNK" for other text; up says
\* that the keyword is written in upper case exactly as in the grammar.
WS         == [k |-> "WS"]
JUNK       == [k |-> "JUNK"]
LPAREN     == [k |-> "("]
RPAREN     == [k |-> ")"]
Kw(k, up)  == [k |-> k, up |-> up]
AND        == Kw("AND", TRUE)
OR         == Kw("OR", TRUE)
RegexTok(k, up, pat)  == [k |-> k, up |-> up, pat |-> pat]
DateTok(up, op, rhs)  == [k |-> "DATE", up |-> up, op |-> op, rhs |-> rhs]

\* the chunks after a DATE comparison that its \S+ swallows: all up to the next blank
RECURSIVE swallowed(_)
swallowed(chunks) ==
    IF chunks = <<>> \/ Head(chunks).k = "WS" THEN 0 ELSE 1 + swallowed(Tail(chunks))

\* TOKEN_REGEX.findall(rule): the token shapes from left to right; text that
\* matches no alternative is passed over
RECURSIVE findall(_)
findall(chunks) ==
    IF chunks = <<>> THEN <<>>
    ELSE LET h == Head(chunks)
             n == swallowed(Tail(chunks))
         IN  IF h.k \in {"WS", "JUNK"} THEN findall(Tail(chunks))
             ELSE IF h.k = "DATE"
                  THEN <<IF n = 0 THEN h ELSE [h EXCEPT !.rhs = JunkRhs]>>
                       \o findall(SubSeq(chunks, n + 2, Len(chunks)))
                  ELSE <<h>> \o findall(Tail(chunks))

\* t.upper()
upper_tok(t) == [t EXCEPT !.up = TRUE]

\* t in ("AND", "OR")
is_and_or(t) == t.k \in {"AND", "OR"} /\ t.up

\* [t.upper() if t in ("AND", "OR") else t for t in tokens]
and_or_upper(tokens) ==
    [i \in 1..Len(tokens) |->
        IF is_and_or(tokens[i]) THEN upper_tok(tokens[i]) ELSE tokens[i]]

tokenize(r) ==
    IF r = <<>> THEN <<>> ELSE and_or_upper(findall(r))

\* getMailDataCsvFromEml.py carries its own copy of tokenize
eml_tokenize(r) ==
    IF r = <<>> THEN <<>> ELSE and_or_upper(findall(r))

\* FILTER_RULE = config.get("FILTER", "rule", fallback="").strip()
RECURSIVE lstrip_rule(_)
lstrip_rule(r) == IF r # <<>> /\ Head(r).k = "WS" THEN lstrip_rule(Tail(r)) ELSE r
RECURSIVE rstrip_rule(_)
rstrip_rule(r) ==
    IF r # <<>> /\ r[Len(r)].k = "WS" THEN rstrip_rule(SubSeq(r, 1, Len(r) - 1)) ELSE r
strip_rule(r) == rstrip_rule(lstrip_rule(r))

----------------------------------------------------------------------------
(* Predicates                                                              *)

\* what a call returns: a value, or the exception it raises ("" for none)
Ret(val)  == [val |-> val, exc |-> ""]
Exc(name) == [val |-> FALSE, exc |-> name]

\* mail_dt <op> cmp_dt
compare(op, mail_dt, cmp_dt) ==
    IF op = ">=" THEN dt_le(cmp_dt, mail_dt)
    ELSE IF op = "<=" THEN dt_le(mail_dt, cmp_dt)
    ELSE IF op = ">" THEN dt_lt(cmp_dt, mail_dt)
    ELSE IF op = "<" THEN dt_lt(mail_dt, cmp_dt)
    ELSE FALSE

\* cmp_dt = datetime.now(base_tz) - delta, and the comparison with it; both
\* the timedelta and the subtraction can raise
compare_now_minus(op, m, cmp) ==
    IF cmp.exc # "" THEN Exc(cmp.exc) ELSE Ret(compare(op, m, cmp.dt))
compare_rel(op, m, now, delta) ==
    IF delta.exc # "" THEN Exc(delta.exc)
    ELSE compare_now_minus(op, m, dt_sub(datetime_now(now, m.off), delta))

\* a cmp_dt that is always taken in JST, whatever the zone of mail_dt
cmp_dt_abs_jst(rhs, m) ==
    IF rhs.kind = "date" THEN Dt(ymd2ord(rhs.y, rhs.m, rhs.d), 0, JST)
    ELSE Dt(ymd2ord(rhs.y, rhs.m, rhs.d), rhs.s, IF rhs.tz = None THEN JST ELSE rhs.tz[1])

\* cmp_dt of an absolute right-hand side: midnight of the date in the zone of
\* mail_dt, or the ISO timestamp, in the zone of mail_dt when it names none
cmp_dt_abs(rhs, m) ==
    IF rhs.kind = "date" THEN Dt(ymd2ord(rhs.y, rhs.m, rhs.d), 0, m.off)
    ELSE Dt(ymd2ord(rhs.y, rhs.m, rhs.d), rhs.s, IF rhs.tz = None THEN m.off ELSE rhs.tz[1])

\* eval_date_token of getMailDataCsv.py from "cmp_dt: datetime" on: m is the
\* mail_dt that is present, now the reading of the clock that datetime.now()
\* returns.  A relative right-hand side is computed outside any try; an
\* absolute one that cannot be read (datetime() or fromisoformat() raises
\* ValueError) gives False.
eval_date_rhs(token, m, now) ==
    IF token.rhs.kind = "rel"
    THEN compare_rel(token.op, m, now, timedelta(token.rhs.n, lower(token.rhs.unit)))
    ELSE IF token.rhs.kind \in {"date", "iso"}
    THEN IF valid_ymd(token.rhs.y, token.rhs.m, token.rhs.d)
         THEN Ret(compare(token.op, m, cmp_dt_abs(token.rhs, m)))
         ELSE Ret(FALSE)
    ELSE Ret(FALSE)

\* eval_date_token with a missing mail_dt taken for the earliest datetime
eval_date_token_min(token, mail_dt, now) ==
    IF mail_dt = None THEN eval_date_rhs(token, Dt(MinOrdinal, 0, JST), now)
    ELSE eval_date_rhs(token, mail_dt[1], now)

\* eval_date_token(token, mail_dt) of getMailDataCsv.py.  The token comes from
\* the tokenizer, so the match of ^DATE([<>]=?)(\S+)$ succeeds; mail_dt, when
\* present, is aware (main() puts JST on a Date header without zone).
eval_date_token(token, mail_dt, now) ==
    IF mail_dt = None THEN Ret(FALSE)
    ELSE eval_date_rhs(token, mail_dt[1], now)

\* the copy in getMailDataCsvFromEml.py
\* cmp_dt = datetime.now(base_tz) - delta, and the comparison with it; both
\* the timedelta and the subtraction can raise
eml_compare_now_minus(op, m, cmp) ==
    IF cmp.exc # "" THEN Exc(cmp.exc) ELSE Ret(compare(op, m, cmp.dt))
eml_compare_rel(op, m, now, delta) ==
    IF delta.exc # "" THEN Exc(delta.exc)
    ELSE eml_compare_now_minus(op, m, dt_sub(datetime_now(now, m.off), delta))

\* cmp_dt of an absolute right-hand side: midnight of the date in the zone of
\* mail_dt, or the ISO timestamp, in the zone of mail_dt when it names none
eml_cmp_dt_abs(rhs, m) ==
    IF rhs.kind = "date" THEN Dt(ymd2ord(rhs.y, rhs.m, rhs.d), 0, m.off)
    ELSE Dt(ymd2ord(rhs.y, rhs.m, rhs.d), rhs.s, IF rhs.tz = None THEN m.off ELSE rhs.tz[1])

\* the copy of eval_date_token in getMailDataCsvFromEml.py
eml_eval_date_rhs(token, m, now) ==
    IF token.rhs.kind = "rel"
    THEN eml_compare_rel(token.op, m, now, timedelta(token.rhs.n, lower(token.rhs.unit)))
    ELSE IF token.rhs.kind \in {"date", "iso"}
    THEN IF valid_ymd(token.rhs.y, token.rhs.m, token.rhs.d)
         THEN Ret(compare(token.op, m, eml_cmp_dt_abs(token.rhs, m)))
         ELSE Ret(FALSE)
    ELSE Ret(FALSE)

eml_eval_date_token(token, mail_dt, now) ==
    IF mail_dt = None THEN Ret(FALSE)
    ELSE eml_eval_date_rhs(token, mail_dt[1], now)

\* any(rgx.search(addr) for addr in (addrs or []))
any_search(pat, addrs) == \E i \in 1..Len(addrs) : re_search(pat, addrs[i], TRUE)

\* re.search(pattern, subject or "", flags=re.IGNORECASE) is not None under
\* "except re.error: return False"
subject_predicate(pat, subject) ==
    IF pat.comp = "ok" THEN Ret(re_search(pat, subject, TRUE))
    ELSE IF pat.comp = "re.error" THEN Ret(FALSE)
    ELSE Exc(pat.comp)

\* rgx = re.compile(pattern, flags=re.IGNORECASE) under "except re.error:
\* return False", then any(rgx.search(addr) ...)
address_predicate(pat, addrs) ==
    IF pat.comp = "ok" THEN Ret(any_search(pat, addrs))
    ELSE IF pat.comp = "re.error" THEN Ret(FALSE)
    ELSE Exc(pat.comp)

----------------------------------------------------------------------------
(* parse_and_eval of getMailDataCsv.py.  idx counts consumed tokens as in  *)
(* the code (tokens[idx] is tokens[idx + 1] here); a result is the value,  *)
(* idx when the call ended and the exception raised ("" for none).         *)

Ok(val, idx)     == [val |-> val, idx |-> idx, exc |-> ""]
Raise(name, idx) == [val |-> FALSE, idx |-> idx, exc |-> name]

\* tokens[idx] == "OR" / tokens[idx] == "AND"
tok_is(tokens, idx, word) == tokens[idx + 1].k = word /\ tokens[idx + 1].up

\* "value = value or rhs" and "value = value and rhs" once the right operand
\* has been evaluated: an exception raised in it passes through
or_rhs(value, rhs)  == IF rhs.exc # "" THEN rhs ELSE Ok(value \/ rhs.val, rhs.idx)
and_rhs(value, rhs) == IF rhs.exc # "" THEN rhs ELSE Ok(value /\ rhs.val, rhs.idx)

\* "if idx >= len(tokens) or tokens[idx] != ")": raise ...; idx += 1; return val"
close_paren(tokens, val) ==
    IF val.exc # "" THEN val
    ELSE IF val.idx >= Len(tokens) \/ tokens[val.idx + 1].k # ")"
    THEN Raise("ValueError: Missing closing parenthesis in filter rule", val.idx)
    ELSE Ok(val.val, val.idx + 1)

\* what parse_factor returns for a predicate with outcome p; at is idx when the
\* predicate raises, idx + 1 is its value when it returns
factor_result(p, at, idx) ==
    IF p.exc # "" THEN Raise(p.exc, at) ELSE Ok(p.val, idx + 1)

\* what parse_and_eval returns, with len(tokens)
outcome(e, ntok) == [val |-> e.val, idx |-> e.idx, exc |-> e.exc, ntok |-> ntok]

RECURSIVE parse_expr(_, _, _)
RECURSIVE parse_expr_loop(_, _, _)
RECURSIVE parse_term(_, _, _)
RECURSIVE parse_term_loop(_, _, _)
RECURSIVE parse_factor(_, _, _)

\* parse_term_loop with "value = value or rhs": AND no longer conjoins
parse_term_loop_or(tokens, r, acc) ==
    IF acc.exc = "" /\ acc.idx < Len(tokens) /\ tok_is(tokens, acc.idx, "AND")
    THEN parse_term_loop(tokens, r, or_rhs(acc.val, parse_factor(tokens, r, acc.idx + 1)))
    ELSE acc

\* value = parse_term(), then the while loop
parse_expr(tokens, r, idx) == parse_expr_loop(tokens, r, parse_term(tokens, r, idx))

\* while idx < len(tokens) and tokens[idx] == "OR": idx += 1; rhs = parse_term(); value = value or rhs
\* acc is value and idx so far, or the exception raised so far
parse_expr_loop(tokens, r, acc) ==
    IF acc.exc = "" /\ acc.idx < Len(tokens) /\ tok_is(tokens, acc.idx, "OR")
    THEN parse_expr_loop(tokens, r, or_rhs(acc.val, parse_term(tokens, r, acc.idx + 1)))
    ELSE acc

\* value = parse_factor(), then the while loop
parse_term(tokens, r, idx) == parse_term_loop(tokens, r, parse_factor(tokens, r, idx))

\* while idx < len(tokens) and tokens[idx] == "AND": idx += 1; rhs = parse_factor(); value = value and rhs
parse_term_loop(tokens, r, acc) ==
    IF acc.exc = "" /\ acc.idx < Len(tokens) /\ tok_is(tokens, acc.idx, "AND")
    THEN parse_term_loop(tokens, r, and_rhs(acc.val, parse_factor(tokens, r, acc.idx + 1)))
    ELSE acc

parse_factor(tokens, r, idx) ==
    IF idx >= Len(tokens) THEN Raise("ValueError: Unexpected end of filter rule", idx)
    ELSE IF tokens[idx + 1].k = "("
    THEN close_paren(tokens, parse_expr(tokens, r, idx + 1))
    \* tok.startswith("SUBJECT:/"): the keyword as written, upper case only
    ELSE IF tokens[idx + 1].k = "SUBJECT" /\ tokens[idx + 1].up
    THEN factor_result(subject_predicate(tokens[idx + 1].pat, r.subject), idx + 1, idx)
    \* tok.upper().startswith("FROM:/") and so on: the keyword in any case
    ELSE IF tokens[idx + 1].k = "FROM"
    THEN factor_result(address_predicate(tokens[idx + 1].pat, r.from_addrs), idx + 1, idx)
    ELSE IF tokens[idx + 1].k = "TO"
    THEN factor_result(address_predicate(tokens[idx + 1].pat, r.to_addrs), idx + 1, idx)
    ELSE IF tokens[idx + 1].k = "CC"
    THEN factor_result(address_predicate(tokens[idx + 1].pat, r.cc_addrs), idx + 1, idx)
    ELSE IF tokens[idx + 1].k = "DATE"
    THEN factor_result(eval_date_token(tokens[idx + 1], r.mail_dt, r.now), idx, idx)
    ELSE Raise("ValueError: Unexpected token", idx)

\* a parse_and_eval without the "if not tokens: return True" of the code
parse_and_eval_noblank(rule_text, r) ==
    outcome(parse_expr(tokenize(rule_text), r, 0), Len(tokenize(rule_text)))

\* parse_and_eval from "if not tokens" on
eval_tokens(tokens, r) ==
    IF tokens = <<>> THEN [val |-> TRUE, idx |-> 0, exc |-> "", ntok |-> 0]
    ELSE outcome(parse_expr(tokens, r, 0), Len(tokens))

\* the outcome of parse_and_eval(rule, subject, from_addrs, to_addrs, cc_addrs,
\* mail_dt), r holding the five record arguments and the clock; ntok is
\* len(tokens), kept to tell how far the parse went
parse_and_eval(rule_text, r) == eval_tokens(tokenize(rule_text), r)

----------------------------------------------------------------------------
(* parse_and_eval of getMailDataCsvFromEml.py.  Its loops read             *)
(* "val = val or parse_term()" and "val = val and parse_factor()": Python  *)
(* does not call the right operand when the left one decides the result.   *)

RECURSIVE eml_parse_expr(_, _, _)
RECURSIVE eml_parse_expr_loop(_, _, _)
RECURSIVE eml_parse_term(_, _, _)
RECURSIVE eml_parse_term_loop(_, _, _)
RECURSIVE eml_parse_factor(_, _, _)

\* val = parse_term(), then the while loop
eml_parse_expr(tokens, r, idx) ==
    eml_parse_expr_loop(tokens, r, eml_parse_term(tokens, r, idx))

\* while idx < len(tokens) and tokens[idx] == "OR": idx += 1; val = val or parse_term()
\* when val is true parse_term() is not called and idx stays behind the OR
eml_parse_expr_loop(tokens, r, acc) ==
    IF acc.exc = "" /\ acc.idx < Len(tokens) /\ tok_is(tokens, acc.idx, "OR")
    THEN IF acc.val
         THEN eml_parse_expr_loop(tokens, r, Ok(TRUE, acc.idx + 1))
         ELSE eml_parse_expr_loop(tokens, r, eml_parse_term(tokens, r, acc.idx + 1))
    ELSE acc

\* val = parse_factor(), then the while loop
eml_parse_term(tokens, r, idx) ==
    eml_parse_term_loop(tokens, r, eml_parse_factor(tokens, r, idx))

\* while idx < len(tokens) and tokens[idx] == "AND": idx += 1; val = val and parse_factor()
\* when val is false parse_factor() is not called and idx stays behind the AND
eml_parse_term_loop(tokens, r, acc) ==
    IF acc.exc = "" /\ acc.idx < Len(tokens) /\ tok_is(tokens, acc.idx, "AND")
    THEN IF ~acc.val
         THEN eml_parse_term_loop(tokens, r, Ok(FALSE, acc.idx + 1))
         ELSE eml_parse_term_loop(tokens, r, eml_parse_factor(tokens, r, acc.idx + 1))
    ELSE acc

eml_parse_factor(tokens, r, idx) ==
    IF idx >= Len(tokens) THEN Raise("ValueError: Unexpected end of filter rule", idx)
    ELSE IF tokens[idx + 1].k = "("
    THEN close_paren(tokens, eml_parse_expr(tokens, r, idx + 1))
    \* tok.upper().startswith("SUBJECT:/"): the keyword in any case
    ELSE IF tokens[idx + 1].k = "SUBJECT"
    THEN factor_result(subject_predicate(tokens[idx + 1].pat, r.subject), idx + 1, idx)
    ELSE IF tokens[idx + 1].k = "FROM"
    THEN factor_result(address_predicate(tokens[idx + 1].pat, r.from_addrs), idx + 1, idx)
    ELSE IF tokens[idx + 1].k = "TO"
    THEN factor_result(address_predicate(tokens[idx + 1].pat, r.to_addrs), idx + 1, idx)
    ELSE IF tokens[idx + 1].k = "CC"
    THEN factor_result(address_predicate(tokens[idx + 1].pat, r.cc_addrs), idx + 1, idx)
    ELSE IF tokens[idx + 1].k = "DATE"
    THEN factor_result(eml_eval_date_token(tokens[idx + 1], r.mail_dt, r.now), idx, idx)
    ELSE Raise("ValueError: Unexpected token", idx)

\* parse_and_eval from "if not tokens" on
eml_eval_tokens(tokens, r) ==
    IF tokens = <<>> THEN [val |-> TRUE, idx |-> 0, exc |-> "", ntok |-> 0]
    ELSE outcome(eml_parse_expr(tokens, r, 0), Len(tokens))

eml_parse_and_eval(rule_text, r) == eml_eval_tokens(eml_tokenize(rule_text), r)

----------------------------------------------------------------------------
(* Address extraction                                                      *)

\* A From/To/Cc header value is modelled by what email.utils.getaddresses
\* makes of it: the sequence of its mailboxes, each a display name and an
\* addr-spec as written (either may be empty).
Mailbox(name, addr) == [name |-> name, addr |-> addr]

\* extract_addresses_only that falls back on the display name when the
\* addr-spec holds no address
RECURSIVE extract_addresses_or_names(_)
extract_addresses_or_names(header_value) ==
    IF header_value = <<>> THEN <<>>
    ELSE LET h    == Head(header_value)
             rest == extract_addresses_or_names(Tail(header_value))
         IN  IF h.addr # <<>> /\ has_at(h.addr) THEN <<lower_str(strip(h.addr))>> \o rest
             ELSE IF has_at(h.name) THEN <<lower_str(strip(h.name))>> \o rest
             ELSE rest

\* [addr.strip().lower() for _, addr in pairs if addr and "@" in addr]
RECURSIVE extract_addresses_only(_)
extract_addresses_only(header_value) ==
    IF header_value = <<>> THEN <<>>
    ELSE LET addr == Head(header_value).addr
             rest == extract_addresses_only(Tail(header_value))
         IN  IF addr # <<>> /\ has_at(addr)
             THEN <<lower_str(strip(addr))>> \o rest
             ELSE rest

\* the copy of extract_addresses_only in getMailDataCsvFromEml.py
RECURSIVE eml_extract_addresses_only(_)
eml_extract_addresses_only(header_value) ==
    IF header_value = <<>> THEN <<>>
    ELSE LET addr == Head(header_value).addr
             rest == eml_extract_addresses_only(Tail(header_value))
         IN  IF addr # <<>> /\ has_at(addr)
             THEN <<lower_str(strip(addr))>> \o rest
             ELSE rest

\* A Date header: None when the message has none; otherwise what
\* parsedate_to_datetime makes of it: an exception (ok is FALSE), or the wall
\* clock d, s with the zone tz, None when the header names no zone.
BadDate          == [ok |-> FALSE]
DateHdr(d, s, tz) == [ok |-> TRUE, d |-> d, s |-> s, tz |-> tz]

\* main(): mail_dt of a message; a Date header without zone is taken as JST
parse_mail_dt(date) ==
    IF date = None THEN None
    ELSE IF ~date[1].ok THEN None
    ELSE Some(Dt(date[1].d, date[1].s, IF date[1].tz = None THEN JST ELSE date[1].tz[1]))

\* the same lines of main() in getMailDataCsvFromEml.py
eml_parse_mail_dt(date) ==
    IF date = None THEN None
    ELSE IF ~date[1].ok THEN None
    ELSE Some(Dt(date[1].d, date[1].s, IF date[1].tz = None THEN JST ELSE date[1].tz[1]))

\* A message as main() sees it after the headers are decoded: subject, the
\* From/To/Cc header values, the Date header and now, the reading of the clock
\* while the rule is evaluated.
Rec(subject, from_, to_, cc_, date, now) ==
    [subject |-> subject, from_ |-> from_, to_ |-> to_, cc_ |-> cc_,
     date |-> date, now |-> now]

\* the arguments main() of getMailDataCsv.py passes to parse_and_eval
filter_args(m) ==
    [subject    |-> m.subject,
     from_addrs |-> extract_addresses_only(m.from_),
     to_addrs   |-> extract_addresses_only(m.to_),
     cc_addrs   |-> extract_addresses_only(m.cc_),
     mail_dt    |-> parse_mail_dt(m.date),
     now        |-> m.now]

\* the arguments main() of getMailDataCsvFromEml.py passes to parse_and_eval
eml_filter_args(m) ==
    [subject    |-> m.subject,
     from_addrs |-> eml_extract_addresses_only(m.from_),
     to_addrs   |-> eml_extract_addresses_only(m.to_),
     cc_addrs   |-> eml_extract_addresses_only(m.cc_),
     mail_dt    |-> eml_parse_mail_dt(m.date),
     now        |-> m.now]

----------------------------------------------------------------------------
(* Inputs of the rule engine                                               *)

\* longest rule, in tokens, among the rules enumerated exhaustively
MaxRuleLen == 4

\* the clock reading: 2026-11-04 12:00:00 UTC
NowUtc == [d |-> ymd2ord(2026, 11, 4), s |-> 43200]

\* three predicates on the subject: A, B and C of the rule examples
PA == RegexTok("SUBJECT", TRUE, Pat(<<"a">>, FALSE, FALSE))
PB == RegexTok("SUBJECT", TRUE, Pat(<<"b">>, FALSE, FALSE))
PC == RegexTok("SUBJECT", TRUE, Pat(<<"c">>, FALSE, FALSE))

\* subjects that give A, B, C every combination of truth values
Subjects ==
    { <<>>, <<"A">>, <<"b">>, <<"c">>, <<"a", "B">>, <<"a", "x", "c">>,
      <<"x", "b", "C">>, <<"c", "b", "a">> }

\* a rule as text: the chunks separated by single blanks
RECURSIVE Spaced(_)
Spaced(chunks) ==
    IF Len(chunks) <= 1 THEN chunks
    ELSE <<Head(chunks), WS>> \o Spaced(Tail(chunks))

Alphabet == {LPAREN, RPAREN, AND, OR, PA, PB}

\* the rules the specification and the design notes name
NamedRules ==
    { <<WS>>, <<WS, WS>>,
      Spaced(<<PA, OR, PB, AND, PC>>),
      Spaced(<<LPAREN, PA, OR, PB, RPAREN, AND, PC>>),
      Spaced(<<PA, AND, PB, OR, PC>>),
      Spaced(<<PA, AND, LPAREN, PB, OR, PC, RPAREN>>),
      Spaced(<<LPAREN, PA, AND, PB>>),
      Spaced(<<LPAREN, LPAREN, PA, RPAREN, OR, PB, RPAREN, AND, PC>>) }

StructRules ==
    { Spaced(f) : f \in UNION { [1..n -> Alphabet] : n \in 0..MaxRuleLen } } \cup NamedRules

SubjectRecords == { Rec(sub, <<>>, <<>>, <<>>, None, NowUtc) : sub \in Subjects }

\* longest From/To/Cc header, in mailboxes
MaxMailboxes == 2
\* an amount of days that reaches back before datetime.min
BigAmount == 1000000

Ops == {">=", "<=", ">", "<"}

\* the zones of the Date headers: none named, UTC, +09:00, -05:00
Zones == {None, Some(0), Some(JST), Some(-18000)}
ZoneOffset(tz) == IF tz = None THEN JST ELSE tz[1]

\* the Date header of a message sent daysAgo days and secsAgo seconds before
\* the clock reading, written in zone tz
HdrAt(daysAgo, secsAgo, tz) ==
    LET n == Norm(NowUtc.d - daysAgo, NowUtc.s - secsAgo + ZoneOffset(tz))
    IN  DateHdr(n.d, n.s, tz)

DateHdrs ==
    {None, Some(BadDate)}
    \cup { Some(HdrAt(k, sec, tz)) : k \in {0, 3, 7, 10}, sec \in {-1, 0, 1}, tz \in Zones }
    \cup { Some(DateHdr(ymd2ord(2023, 12, 31), 86340, tz)) : tz \in Zones }
    \cup { Some(DateHdr(ymd2ord(2024, 1, 1), sec, tz)) : sec \in {0, 1}, tz \in Zones }

DateRhss ==
    { RelRhs(n, u) : n \in {0, 7, BigAmount}, u \in {"d", "h", "m", "D"} }
    \cup { DateRhs(2024, 1, 1), DateRhs(2024, 2, 30), JunkRhs,
           IsoRhs(2024, 1, 1, 1, None), IsoRhs(2024, 1, 1, 0, Some(0)) }

DateRules == { <<DateTok(up, op, rhs)>> : up \in BOOLEAN, op \in Ops, rhs \in DateRhss }

DateRecords == { Rec(<<>>, <<>>, <<>>, <<>>, date, NowUtc) : date \in DateHdrs }

\* patterns: /@x$/, /^a@/, /b/, /A/, the empty pattern, one that re.compile
\* rejects with re.error and one that it rejects with OverflowError
Patterns ==
    { Pat(<<"@", "x">>, FALSE, TRUE), Pat(<<"a", "@">>, TRUE, FALSE),
      Pat(<<"b">>, FALSE, FALSE), Pat(<<"A">>, FALSE, FALSE), Pat(<<>>, FALSE, FALSE),
      BadPat, OverflowPat }

RegexKinds == {"SUBJECT", "FROM", "TO", "CC"}

\* BAD OR GOOD, BAD AND GOOD, GOOD OR BAD: a predicate that does not compile
\* beside one that does
MixedRules ==
    { Spaced(<<RegexTok(k, TRUE, bad), w, RegexTok(k2, TRUE, Pat(<<"b">>, FALSE, FALSE))>>) :
        k \in RegexKinds, k2 \in {"SUBJECT", "FROM"}, bad \in {BadPat, OverflowPat}, w \in {AND, OR} }
    \cup
    { Spaced(<<RegexTok(k2, TRUE, Pat(<<"b">>, FALSE, FALSE)), OR, RegexTok(k, TRUE, BadPat)>>) :
        k \in RegexKinds, k2 \in {"SUBJECT", "FROM"} }

RegexRules ==
    { <<RegexTok(k, up, pat)>> : k \in RegexKinds, up \in BOOLEAN, pat \in Patterns }
    \cup MixedRules

\* mailboxes: a display name that reads like an address before another
\* address, a bare address, entries without "@", an address to be trimmed
Mailboxes ==
    { Mailbox(<<"b", "@", "x">>, <<"A", "@", "Y">>),
      Mailbox(<<>>, <<"b", "@", "X">>),
      Mailbox(<<"a", "@", "x">>, <<"b">>),
      Mailbox(<<"B">>, <<>>),
      Mailbox(<<"a">>, <<" ", "a", "@", "x", " ">>) }

Headers == UNION { [1..n -> Mailboxes] : n \in 0..MaxMailboxes }

\* the header of the two fields a predicate does not look at
Decoy == <<Mailbox(<<>>, <<"c", "@", "x">>)>>

HeaderTriples ==
    UNION { { <<h, Decoy, Decoy>>, <<Decoy, h, Decoy>>, <<Decoy, Decoy, h>> } : h \in Headers }

RegexRecords ==
    { Rec(sub, t[1], t[2], t[3], None, NowUtc) :
        sub \in {<<>>, <<"a", "B">>, <<"x", "b", "@", "x">>}, t \in HeaderTriples }

\* rules with a run of characters that holds no token shape (stray
\* punctuation, a misspelled keyword): a rule of whitespace-separated tokens,
\* and the run put into one of its gaps - right after the token before the
\* gap, right before the token after it, or apart from both
JunkBases ==
    { Spaced(<<PA, AND, PB>>),
      Spaced(<<PA, OR, PB>>),
      Spaced(<<DateTok(TRUE, ">=", DateRhs(2024, 1, 1)), AND, PA>>),
      Spaced(<<PA, OR, DateTok(TRUE, ">=", RelRhs(7, "d"))>>) }

JunkForms == { <<JUNK, WS>>, <<WS, JUNK>>, <<WS, JUNK, WS>> }

JunkRules ==
    { SubSeq(b, 1, k - 1) \o f \o SubSeq(b, k + 1, Len(b)) :
        b \in JunkBases, k \in {2, 4}, f \in JunkForms }

JunkRecords ==
    { Rec(sub, <<>>, <<>>, <<>>, date, NowUtc) :
        sub \in Subjects,
        date \in {None, Some(DateHdr(ymd2ord(2024, 1, 1), 1, Some(0)))} }

\* rules whose keywords are written in lower case: 'subject:/a/ and
\* SUBJECT:/b/', 'date>=2024-01-01 AND SUBJECT:/a/' and so on
CaseRules ==
    { Spaced(<<RegexTok("SUBJECT", u1, Pat(<<"a">>, FALSE, FALSE)), Kw(w, u2), PB>>) :
        u1 \in BOOLEAN, u2 \in BOOLEAN, w \in {"AND", "OR"} }
    \cup
    { Spaced(<<DateTok(u1, ">=", rhs), Kw("AND", u2), PA>>) :
        u1 \in BOOLEAN, u2 \in BOOLEAN, rhs \in {DateRhs(2024, 1, 1), RelRhs(7, "d")} }

\* a rule with a parenthesized predicate, written "(P) AND Q", "( P ) AND Q",
\* "Q AND (P)" or "Q AND ( P )"
Parenthesized(p, q) ==
    { <<LPAREN, p, RPAREN, WS, AND, WS, q>>,
      Spaced(<<LPAREN, p, RPAREN, AND, q>>),
      <<q, WS, AND, WS, LPAREN, p, RPAREN>>,
      Spaced(<<q, AND, LPAREN, p, RPAREN>>) }

ParenRules ==
    UNION { Parenthesized(p, PA) :
              p \in { DateTok(TRUE, ">=", DateRhs(2024, 1, 1)), DateTok(TRUE, "<", RelRhs(7, "d")), PB } }

----------------------------------------------------------------------------
(* The rule engine as a state machine: a rule and a record are given, and  *)
(* each copy of parse_and_eval is applied to them once.                    *)

TypeOK ==
    /\ res_pop3 = None \/ Len(res_pop3) = 1
    /\ res_eml = None \/ Len(res_eml) = 1

\* the settings of config.ini that main() reads
Settings(local_dedupe, max_fetch, host, user, password) ==
    [local_dedupe |-> local_dedupe, max_fetch |-> max_fetch,
     POP3_HOST |-> host, POP3_USER |-> user, POP3_PASS |-> password]

\* no body is extracted
NoMessage ==
    /\ mime = <<>>
    /\ BeautifulSoup = FALSE
    /\ fields = <<>>
    /\ eml_keys = <<>>

\* main() is not run
NoRun ==
    /\ prog = "none"
    /\ pc = "idle"
    /\ config = Settings(FALSE, 0, "h", "u", "p")
    /\ mailbox = <<>>
    /\ state_file = {}
    /\ msgno = 0
    /\ already = {}
    /\ processed_local = {}
    /\ csv = <<>>
    /\ log = <<>>

\* the tool has not been run before
NoEarlierRun == earlier = <<>>

\* parse_and_eval is called directly
Idle == NoRun /\ NoMessage /\ NoEarlierRun

InitParse ==
    /\ rule \in StructRules
    /\ rec \in SubjectRecords
    /\ res_pop3 = None
    /\ res_eml = None
    /\ Idle

\* getMailDataCsv.py, main(): the filter evaluation of one message
EvalPop3 ==
    /\ pc = "idle"
    /\ res_pop3 = None
    /\ res_pop3' = Some(parse_and_eval(rule, filter_args(rec)))
    /\ UNCHANGED <<rule, rec, res_eml>>
    /\ UNCHANGED <<batch, extraction>>

\* getMailDataCsvFromEml.py, main(): the filter evaluation of one message
EvalEml ==
    /\ pc = "idle"
    /\ res_eml = None
    /\ res_eml' = Some(eml_parse_and_eval(rule, eml_filter_args(rec)))
    /\ UNCHANGED <<rule, rec, res_pop3>>
    /\ UNCHANGED <<batch, extraction>>

NextParse == EvalPop3 \/ EvalEml

SpecParse == InitParse /\ [][NextParse]_vars

\* the same machine on rules of one or two predicates and records with
\* address headers and dates
InitPred ==
    /\ \/ rule \in DateRules /\ rec \in DateRecords
       \/ rule \in RegexRules /\ rec \in RegexRecords
       \/ rule \in JunkRules /\ rec \in JunkRecords
       \/ rule \in (CaseRules \cup ParenRules) /\ rec \in JunkRecords
    /\ res_pop3 = None
    /\ res_eml = None
    /\ Idle

SpecPred == InitPred /\ [][NextParse]_vars

----------------------------------------------------------------------------
(***************************************************************************)
(* The batch: main() of getMailDataCsv.py and of getMailDataCsvFromEml.py. *)
(* One action is one whole pass of the loop body for one message.          *)
(***************************************************************************)

\* most messages in a mailbox or files in a folder
MaxMsgs == 2

\* A message of the mailbox, or a file of the folder.  id tells the messages
\* apart: the UIDL the server lists for it, or the path of the file;
\* has_uidl: the UIDL listing of the server has a row for it; mid: its
\* Message-Id header, None when it has none; raw: its bytes; fail: where
\* handling it raises - "retr" when it is retrieved, read or parsed, "body"
\* when its body is extracted, "none" nowhere.  The other fields are those of
\* a record.
Msg(id, has_uidl, mid, raw, fail, r) ==
    [id |-> id, has_uidl |-> has_uidl, mid |-> mid, raw |-> raw, fail |-> fail,
     subject |-> r.subject, from_ |-> r.from_, to_ |-> r.to_, cc_ |-> r.cc_,
     date |-> r.date, now |-> r.now]

\* an input check that looks at the host only
missing_host(cfg) == IF cfg.POP3_HOST = "" THEN <<"POP3_HOST">> ELSE <<>>

\* main(): missing = [k for k, v in {...}.items() if not v]
missing(cfg) ==
    (IF cfg.POP3_HOST = "" THEN <<"POP3_HOST">> ELSE <<>>) \o
    (IF cfg.POP3_USER = "" THEN <<"POP3_USER">> ELSE <<>>) \o
    (IF cfg.POP3_PASS = "" THEN <<"POP3_PASS">> ELSE <<>>)

\* a key of the Uidl column and of the state file
Key(tag, n) == [tag |-> tag, n |-> n]

\* an entry of the log: what was done, and for which message (0: for none)
Ev(what, n) == [ev |-> what, n |-> n]

\* main() of getMailDataCsv.py: uidl_map.get(i, f"NOUIDL-{i}")
uidl_of(box, n) ==
    IF box[n].has_uidl THEN Key("UIDL", box[n].id) ELSE Key("NOUIDL", n)

\* the number of digests the hash of the model has
HashSpace == 3

Hex == <<"0", "1", "2", "3", "4", "5", "6", "7", "8", "9", "a", "b", "c", "d", "e", "f">>

\* hashlib.sha1(msg_bytes).hexdigest(): a text that depends on the bytes
\* only, the same for some different bytes
sha1(raw) == <<Hex[(raw % HashSpace) + 1]>>

\* a key that is the bare digest
make_uidl_unlabeled(m) ==
    IF m.mid # None /\ strip(m.mid[1]) # <<>> THEN strip(m.mid[1])
    ELSE sha1(m.raw)

make_uidl_for_eml(m) ==
    IF m.mid # None /\ strip(m.mid[1]) # <<>> THEN strip(m.mid[1])
    ELSE <<"SHA1-">> \o sha1(m.raw)

\* the files in the order rglob found them
unsorted(emls) == emls

\* sorted(emls): the files in the order of their paths
RECURSIVE sorted(_)
sorted(emls) ==
    IF emls = <<>> THEN <<>>
    ELSE LET least == CHOOSE k \in 1..Len(emls) :
                          \A j \in 1..Len(emls) : emls[k].id <= emls[j].id
         IN  <<emls[least]>> \o
             sorted([j \in 1..(Len(emls) - 1) |-> IF j < least THEN emls[j] ELSE emls[j + 1]])

\* load_state(): file is the content of the state file, {} when there is none
load_state(cfg, file) ==
    IF ~cfg.local_dedupe THEN {}
    ELSE file

\* what load_state() does to the file system
load_state_log(cfg, file) ==
    IF cfg.local_dedupe /\ file # {} THEN <<Ev("read_state", 0)>> ELSE <<>>

\* a save_state that writes the keys of this run only
save_state_overwrite(cfg, file, uidls) ==
    IF ~cfg.local_dedupe \/ uidls = {} THEN file
    ELSE uidls

\* save_state(uidls): the content of the state file afterwards
save_state(cfg, file, uidls) ==
    IF ~cfg.local_dedupe \/ uidls = {} THEN file
    ELSE load_state(cfg, file) \cup uidls

save_state_log(cfg, file, uidls) ==
    IF ~cfg.local_dedupe \/ uidls = {} THEN <<>>
    ELSE load_state_log(cfg, file) \o <<Ev("write_state", 0)>>

\* a filter that lets a message through when its rule cannot be evaluated
filter_step_open(FILTER_RULE, m) ==
    IF FILTER_RULE = <<>> THEN "pass"
    ELSE IF parse_and_eval(FILTER_RULE, filter_args(m)).exc # "" THEN "pass"
    ELSE IF parse_and_eval(FILTER_RULE, filter_args(m)).val THEN "pass" ELSE "skip"

\* what main() does with the outcome o of parse_and_eval: "pass" - the loop
\* body goes on to the body of the message, "skip" - it continues with the
\* next message, "warn" - it reports the failure of the filter on stderr and
\* continues with the next message
filter_verdict(o) ==
    IF o.exc # "" THEN "warn" ELSE IF o.val THEN "pass" ELSE "skip"

\* main() of getMailDataCsv.py, "if FILTER_RULE:" and the try under it
filter_step(FILTER_RULE, m) ==
    IF FILTER_RULE = <<>> THEN "pass"
    ELSE filter_verdict(parse_and_eval(FILTER_RULE, filter_args(m)))

\* the same lines of main() in getMailDataCsvFromEml.py
eml_filter_step(FILTER_RULE, m) ==
    IF FILTER_RULE = <<>> THEN "pass"
    ELSE filter_verdict(eml_parse_and_eval(FILTER_RULE, eml_filter_args(m)))

\* the row main() writes for message m; n is not a column: it names the
\* message the row was written for
Row(uidl, m, n) ==
    [uidl |-> uidl, subject |-> m.subject, from_ |-> m.from_, n |-> n]

\* the loop body after the filter said f: body extraction, then the row
after_filter(f, m) ==
    IF f # "pass" THEN f
    ELSE IF m.fail = "body" THEN "error"
    ELSE "row"

\* what one pass of the loop body does with message m, under the key uidl:
\* "dedupe" - skipped as already written, "error" - handling it raised,
\* "warn", "skip" - stopped by the filter, "row" - written
pop3_pass(cfg, FILTER_RULE, seen, uidl, m) ==
    IF cfg.local_dedupe /\ uidl \in seen THEN "dedupe"
    ELSE IF m.fail = "retr" THEN "error"
    ELSE after_filter(filter_step(FILTER_RULE, m), m)

eml_pass(FILTER_RULE, m) ==
    IF m.fail = "retr" THEN "error"
    ELSE after_filter(eml_filter_step(FILTER_RULE, m), m)

\* a loop that lets the exception of a message out of main()
except_reraise(out) == IF out \in {"warn", "error"} THEN "abort" ELSE "loop"

\* where main() is after a pass that ended as out: both "except Exception"
\* clauses of the loop body end in "continue", as every other pass does
except_continue(out) == "loop"

\* main() of getMailDataCsv.py up to the loop
P_Start ==
    /\ prog = "pop3" /\ pc = "start"
    /\ IF missing(config) # <<>>
       THEN /\ pc' = "exit"
            /\ log' = log \o <<Ev("stderr_missing", 0), Ev("exit", 1)>>
            /\ UNCHANGED <<already, msgno>>
       ELSE IF Len(mailbox) = 0
       THEN /\ pc' = "done"
            /\ log' = log \o <<Ev("mkdir", 0), Ev("connect", 0), Ev("quit", 0)>>
            /\ UNCHANGED <<already, msgno>>
       ELSE /\ pc' = "loop"
            /\ already' = load_state(config, state_file)
            /\ msgno' = IF Len(mailbox) - config.max_fetch + 1 > 1
                        THEN Len(mailbox) - config.max_fetch + 1 ELSE 1
            /\ log' = log \o <<Ev("mkdir", 0), Ev("connect", 0)>>
                          \o load_state_log(config, state_file)
                          \o <<Ev("open_csv", 0)>>
    /\ UNCHANGED <<prog, config, mailbox, state_file, processed_local, csv>>
    /\ UNCHANGED <<engine, extraction>>

\* one pass of "for i in range(start, total + 1)"
P_Step ==
    /\ prog = "pop3" /\ pc = "loop" /\ msgno <= Len(mailbox)
    /\ \E out \in {pop3_pass(config, strip_rule(rule), already,
                             uidl_of(mailbox, msgno), mailbox[msgno])} :
          /\ csv' = IF out = "row"
                    THEN Append(csv, Row(uidl_of(mailbox, msgno), mailbox[msgno], msgno))
                    ELSE csv
          /\ processed_local' = IF out = "row"
                                THEN processed_local \cup {uidl_of(mailbox, msgno)}
                                ELSE processed_local
          /\ log' = IF out = "warn" THEN Append(log, Ev("warn_filter", msgno))
                    ELSE IF out = "error" THEN Append(log, Ev("warn_message", msgno))
                    ELSE log
          /\ pc' = except_continue(out)
    /\ msgno' = msgno + 1
    /\ UNCHANGED <<prog, config, mailbox, state_file, already>>
    /\ UNCHANGED <<engine, extraction>>

\* main() of getMailDataCsv.py after the loop
P_Finish ==
    /\ prog = "pop3" /\ pc = "loop" /\ msgno > Len(mailbox)
    /\ state_file' = save_state(config, state_file, processed_local)
    /\ log' = log \o save_state_log(config, state_file, processed_local)
                  \o <<Ev("quit", 0)>>
    /\ pc' = "done"
    /\ UNCHANGED <<prog, config, mailbox, msgno, already, processed_local, csv>>
    /\ UNCHANGED <<engine, extraction>>

\* main() of getMailDataCsvFromEml.py up to the loop
E_Start ==
    /\ prog = "eml" /\ pc = "start"
    /\ IF Len(mailbox) = 0
       THEN /\ pc' = "done"
            /\ UNCHANGED <<msgno, log>>
       ELSE /\ pc' = "loop"
            /\ msgno' = 1
            /\ log' = log \o <<Ev("mkdir", 0), Ev("open_csv", 0)>>
    /\ UNCHANGED <<prog, config, mailbox, state_file, already, processed_local, csv>>
    /\ UNCHANGED <<engine, extraction>>

\* one pass of "for eml_path in sorted(emls)"
E_Step ==
    /\ prog = "eml" /\ pc = "loop" /\ msgno <= Len(mailbox)
    /\ \E m \in {sorted(mailbox)[msgno]} :
       \E out \in {eml_pass(strip_rule(rule), m)} :
          /\ csv' = IF out = "row" THEN Append(csv, Row(make_uidl_for_eml(m), m, msgno))
                    ELSE csv
          /\ log' = IF out = "warn" THEN Append(log, Ev("warn_filter", msgno))
                    ELSE IF out = "error" THEN Append(log, Ev("warn_message", msgno))
                    ELSE log
          /\ pc' = except_continue(out)
    /\ msgno' = msgno + 1
    /\ UNCHANGED <<prog, config, mailbox, state_file, already, processed_local>>
    /\ UNCHANGED <<engine, extraction>>

\* main() of getMailDataCsvFromEml.py after the loop
E_Finish ==
    /\ prog = "eml" /\ pc = "loop" /\ msgno > Len(mailbox)
    /\ pc' = "done"
    /\ UNCHANGED <<prog, config, mailbox, state_file, msgno, already, processed_local, csv, log>>
    /\ UNCHANGED <<engine, extraction>>

\* the rules of the INI file the batch is run with: none, blank ones, one
\* that holds no token, A, "(A AND B" and "A OR (" which cannot be parsed
BlankRules == { <<>>, <<WS>>, <<WS, WS>> }
MainRules ==
    BlankRules \cup
    { <<JUNK>>, <<PA>>, <<WS, PA, WS>>,
      Spaced(<<LPAREN, PA, AND, PB>>),
      Spaced(<<PA, OR, LPAREN>>) }

MainSubjects == { <<>>, <<"a">> }
MainFails    == { "none", "retr", "body" }
MainMids     == { None, Some(<<"m">>) }

\* the bytes of a message, as a number: equal headers, equal bytes
RawOf(subject, mid) ==
    (IF subject = <<>> THEN 0 ELSE 1) + (IF mid = None THEN 0 ELSE 2)

\* the orders in which n files can be found
Perms(n) == { f \in [1..n -> 1..n] : \A a, b \in 1..n : a # b => f[a] # f[b] }

\* mailboxes of a POP3 server with n messages: message j has the UIDL j, if
\* it has one
Pop3Boxes(n) ==
    { [j \in 1..n |->
          Msg(j, u[j], None, RawOf(sub[j], None), fl[j],
              Rec(sub[j], <<>>, <<>>, <<>>, None, NowUtc))] :
        sub \in [1..n -> MainSubjects], fl \in [1..n -> MainFails],
        u \in [1..n -> BOOLEAN] }

\* folders of n .eml files, in the order rglob finds them
EmlBoxes(n) ==
    { [j \in 1..n |->
          Msg(path[j], FALSE, mid[j], RawOf(sub[j], mid[j]), fl[j],
              Rec(sub[j], <<>>, <<>>, <<>>, None, NowUtc))] :
        sub \in [1..n -> MainSubjects], fl \in [1..n -> MainFails],
        mid \in [1..n -> MainMids], path \in Perms(n) }

\* the settings of a run of getMailDataCsv.py and the state file it finds
Pop3Setups ==
    { <<Settings(FALSE, 200, h, u, p), {}>> :
        h \in {"", "h"}, u \in {"", "u"}, p \in {"", "p"} } \cup
    { <<Settings(d, f, "h", "u", "p"), st>> :
        d \in BOOLEAN, f \in {1, 200},
        st \in { {}, {Key("UIDL", 1)}, {Key("NOUIDL", 2)} } }

\* the records parse_and_eval is called with directly
AllRecords == SubjectRecords \cup DateRecords \cup RegexRecords

InitMain ==
    /\ rule \in MainRules
    /\ res_pop3 = None
    /\ res_eml = None
    /\ already = {}
    /\ processed_local = {}
    /\ csv = <<>>
    /\ log = <<>>
    /\ msgno = 0
    /\ NoMessage
    /\ NoEarlierRun
    /\ \/ /\ rec \in AllRecords
          /\ prog = "none" /\ pc = "idle"
          /\ config = Settings(FALSE, 0, "h", "u", "p")
          /\ mailbox = <<>>
          /\ state_file = {}
       \/ /\ rec = Rec(<<>>, <<>>, <<>>, <<>>, None, NowUtc)
          /\ prog = "pop3" /\ pc = "start"
          /\ \E n \in 0..MaxMsgs : mailbox \in Pop3Boxes(n)
          /\ \E su \in Pop3Setups : config = su[1] /\ state_file = su[2]
       \/ /\ rec = Rec(<<>>, <<>>, <<>>, <<>>, None, NowUtc)
          /\ prog = "eml" /\ pc = "start"
          /\ \E n \in 0..MaxMsgs : mailbox \in EmlBoxes(n)
          /\ config = Settings(FALSE, 0, "h", "u", "p")
          /\ state_file = {}

NextMain ==
    \/ EvalPop3
    \/ EvalEml
    \/ P_Start
    \/ P_Step
    \/ P_Finish
    \/ E_Start
    \/ E_Step
    \/ E_Finish

SpecMain == InitMain /\ [][NextMain]_vars

\* the loop of main() has a message left to pass: ENABLED <<P_Step \/ E_Step>>_vars
StepEnabled == prog \in {"pop3", "eml"} /\ pc = "loop" /\ msgno <= Len(mailbox)

\* weak fairness of the pass of the loop, WF_vars(P_Step \/ E_Step), written
\* out with StepEnabled for its ENABLED
StepFair == []<>(~StepEnabled) \/ []<><<P_Step \/ E_Step>>_vars

\* main() is one sequential process: as long as it has a step to take, it
\* takes one
SpecMainLive ==
    /\ SpecMain
    /\ WF_vars(P_Start) /\ WF_vars(P_Finish)
    /\ WF_vars(E_Start) /\ WF_vars(E_Finish)
    /\ StepFair

----------------------------------------------------------------------------
(***************************************************************************)
(* Runs of getMailDataCsv.py one after the other, with local               *)
(* deduplication: each run finds the state file the run before it left.    *)
(* Between two runs the mailbox on the server changes: old messages are    *)
(* deleted, the others are renumbered from 1 and keep their UIDL, and a    *)
(* new message may have arrived.                                           *)
(***************************************************************************)
MaxRuns == 2

\* a message that arrived after the runs so far; id is not the id of any
\* message before it
Arrival(id, has_uidl) ==
    Msg(id, has_uidl, None, RawOf(<<"a">>, None), "none",
        Rec(<<"a">>, <<>>, <<>>, <<>>, None, NowUtc))

\* the mailboxes the next session can find after a session that found box
LaterBoxes(box, fresh) ==
    LET kept == { SubSeq(box, k + 1, Len(box)) : k \in 0..Len(box) }
    IN  kept \cup
        { Append(b, Arrival(fresh, u)) : b \in { c \in kept : Len(c) < MaxMsgs }, u \in BOOLEAN }

\* the program is started again: the module globals and the locals of main()
\* are new (processed_local = set() and so on), a new CSV file is named
\* after the time of the start, the state file is what the last run left
P_Again ==
    /\ prog = "pop3" /\ pc = "done"
    /\ Len(earlier) + 1 < MaxRuns
    /\ earlier' = Append(earlier, [box |-> mailbox, csv |-> csv])
    /\ mailbox' \in LaterBoxes(mailbox, MaxMsgs + Len(earlier) + 1)
    /\ pc' = "start"
    /\ msgno' = 0
    /\ already' = {}
    /\ processed_local' = {}
    /\ csv' = <<>>
    /\ log' = <<>>
    /\ UNCHANGED <<prog, config, state_file>>
    /\ UNCHANGED <<engine, mime, BeautifulSoup, fields, eml_keys>>

\* the first run: no state file yet; the rule is SUBJECT:/a/, which filters
\* out the messages without a subject
InitRuns ==
    /\ rule = <<PA>>
    /\ rec = Rec(<<>>, <<>>, <<>>, <<>>, None, NowUtc)
    /\ res_pop3 = None
    /\ res_eml = None
    /\ prog = "pop3" /\ pc = "start"
    /\ \E f \in {1, 200} : config = Settings(TRUE, f, "h", "u", "p")
    /\ \E n \in 0..MaxMsgs : mailbox \in Pop3Boxes(n)
    /\ state_file = {}
    /\ msgno = 0
    /\ already = {}
    /\ processed_local = {}
    /\ csv = <<>>
    /\ log = <<>>
    /\ NoMessage
    /\ NoEarlierRun

NextRuns ==
    \/ P_Start
    \/ P_Step
    \/ P_Finish
    \/ P_Again

SpecRuns == InitRuns /\ [][NextRuns]_vars

----------------------------------------------------------------------------
(***************************************************************************)
(* The body of a message: the part of the loop body of main() between the  *)
(* filter and the row, which is the same in both tools, with html_to_text, *)
(* sanitize_html and extract_body_content.  The content of a part is a     *)
(* sequence of nodes: characters, tags and img elements.  The HTML of the  *)
(* model holds no body, script or style element and no character entity.   *)
(***************************************************************************)

\* most parts in a multipart message
MaxParts == 3

Ch(c)     == [k |-> "ch", c |-> c, w |-> None, h |-> None]
Tag(name) == [k |-> "tag", c |-> name, w |-> None, h |-> None]
\* <img ...>: w, h are its width and height attributes, None when it has none
Img(w, h) == [k |-> "img", c |-> "img", w |-> w, h |-> h]

Text(s) == [j \in 1..Len(s) |-> Ch(s[j])]

\* a part as msg.walk() gives it; disp is get_content_disposition(), "" for None
Part(ctype, disp, content) == [ctype |-> ctype, disp |-> disp, content |-> content]

\* a parsed message: is_multipart(), and the parts of walk() in document
\* order - for a message that is not multipart, the message itself
Mime(multipart, parts) == [multipart |-> multipart, parts |-> parts]

is_space(n) == n.k = "ch" /\ n.c \in {" ", "\n"}

\* str.strip() on the content of a part
RECURSIVE str_lstrip(_)
str_lstrip(s) == IF s # <<>> /\ is_space(Head(s)) THEN str_lstrip(Tail(s)) ELSE s

RECURSIVE str_rstrip(_)
str_rstrip(s) ==
    IF s # <<>> /\ is_space(s[Len(s)]) THEN str_rstrip(SubSeq(s, 1, Len(s) - 1)) ELSE s

str_strip(s) == str_rstrip(str_lstrip(s))

\* int(s) does not raise ValueError
int_parses(s) == s \in {"-1", "0", "1", "2"}

\* int(s), for the s it parses
int(s) == CASE s = "-1" -> 0 - 1 [] s = "0" -> 0 [] s = "1" -> 1 [] OTHER -> 2

\* img.get(name, "0")
img_get(attr) == IF attr = None THEN "0" ELSE attr[1]

\* (w and w <= 1) or (h and h <= 1)
small(w, h) == (w # 0 /\ w <= 1) \/ (h # 0 /\ h <= 1)

\* the try block of the img loop: the element is decomposed
decomposes(n) ==
    /\ n.k = "img"
    /\ int_parses(img_get(n.w)) /\ int_parses(img_get(n.h))
    /\ small(int(img_get(n.w)), int(img_get(n.h)))

\* for img in soup.find_all("img"): try: ... img.decompose()
decompose_imgs(html) == SelectSeq(html, LAMBDA n : ~decomposes(n))

\* soup.get_text("\n"): the strings of the tree, joined by newlines.  seen: 0 -
\* no string yet, 1 - within a string, 2 - markup since the last string
RECURSIVE get_text(_, _)
get_text(html, seen) ==
    IF html = <<>> THEN <<>>
    ELSE IF Head(html).k = "ch"
    THEN (IF seen = 2 THEN <<Ch("\n")>> ELSE <<>>) \o <<Head(html)>> \o get_text(Tail(html), 1)
    ELSE get_text(Tail(html), IF seen = 0 THEN 0 ELSE 2)

\* the fallback of html_to_text: the four re.sub calls
RECURSIVE sub_tags(_)
sub_tags(html) ==
    IF html = <<>> THEN <<>>
    ELSE (IF Head(html).k = "ch" THEN <<Head(html)>>
          ELSE IF Head(html) = Tag("br") THEN <<Ch("\n")>>
          ELSE IF Head(html) = Tag("/p") THEN <<Ch("\n"), Ch("\n")>>
          ELSE <<>>) \o sub_tags(Tail(html))

html_to_text(html, bs4) ==
    IF html = <<>> THEN <<>>
    ELSE IF bs4 THEN str_strip(get_text(decompose_imgs(html), 0))
    ELSE str_strip(sub_tags(html))

sanitize_html(html, bs4) ==
    IF html = <<>> THEN <<>>
    ELSE IF bs4 THEN decompose_imgs(html)
    ELSE html

\* extract_body_content: without a body, script or style element, html.strip()
extract_body_content(html) == str_strip(html)

\* the values of text_body and html_raw, None or the content
Candidates(text_body, html_raw) == [text_body |-> text_body, html_raw |-> html_raw]

\* "for part in msg.walk():" of main()
RECURSIVE walk(_, _, _)
walk(parts, text_body, html_raw) ==
    IF parts = <<>> THEN Candidates(text_body, html_raw)
    ELSE IF Head(parts).disp = "attachment" THEN walk(Tail(parts), text_body, html_raw)
    ELSE IF Head(parts).ctype = "text/plain" /\ text_body = None
    THEN walk(Tail(parts), Some(str_strip(Head(parts).content)), html_raw)
    ELSE IF Head(parts).ctype = "text/html" /\ html_raw = None
    THEN walk(Tail(parts), text_body, Some(Head(parts).content))
    ELSE walk(Tail(parts), text_body, html_raw)

\* the else branch of "if msg.is_multipart():"
whole_message(part) ==
    IF part.ctype = "text/plain" THEN Candidates(Some(str_strip(part.content)), None)
    ELSE IF part.ctype = "text/html" THEN Candidates(None, Some(part.content))
    ELSE Candidates(None, None)

body_candidates(msg) ==
    IF msg.multipart THEN walk(msg.parts, None, None) ELSE whole_message(msg.parts[1])

\* x or ""
or_empty(x) == IF x = None THEN <<>> ELSE x[1]

\* "if not text_body and html_raw: text_body = html_to_text(html_raw)", and
\* the TextBody column "text_body or ''"
text_field(c, bs4) ==
    IF or_empty(c.text_body) = <<>> /\ or_empty(c.html_raw) # <<>>
    THEN html_to_text(or_empty(c.html_raw), bs4)
    ELSE or_empty(c.text_body)

\* html_clean = extract_body_content(sanitize_html(html_raw or "")), and the
\* HtmlBody column "html_clean or ''"
html_field(c, bs4) == extract_body_content(sanitize_html(or_empty(c.html_raw), bs4))

\* one message through the body extraction of main()
ExtractBody ==
    /\ mime # <<>> /\ fields = <<>>
    /\ \E c \in {body_candidates(mime[1])} :
          fields' = Some([text_body |-> c.text_body, html_raw |-> c.html_raw,
                          text |-> text_field(c, BeautifulSoup),
                          html |-> html_field(c, BeautifulSoup)])
    /\ UNCHANGED <<mime, BeautifulSoup, eml_keys, earlier>>
    /\ UNCHANGED <<engine, batch>>

\* the contents of the parts of the model
Hello == Text(<<"H", "e", "l", "l", "o">>)
PHi   == <<Tag("p"), Ch("H"), Ch("i"), Tag("/p")>>
PlainContents ==
    { Hello, <<Ch(" ")>> \o Hello \o <<Ch("\n")>>, Text(<<" ", "\n">>), Text(<<"B", "y", "e">>) }
HtmlContents ==
    { PHi, <<Ch("a"), Img(Some("1"), Some("1")), Tag("br"), Ch("b"), Ch(" ")>> }

\* the width and height attributes of an img: none, numbers, "x"
Attrs == { None, Some("-1"), Some("0"), Some("1"), Some("2"), Some("x") }
ImgContents == { <<Ch("a"), Img(w, h), Ch("b")>> : w \in Attrs, h \in Attrs }

Dispositions == { "", "attachment" }
Parts ==
    { Part("text/plain", d, c) : d \in Dispositions, c \in PlainContents } \cup
    { Part("text/html", d, c) : d \in Dispositions, c \in HtmlContents } \cup
    { Part("image/png", "attachment", <<>>) }

\* multipart messages of n parts: the container, then its parts
Multiparts(n) ==
    { Mime(TRUE, <<Part("multipart/mixed", "", <<>>)>> \o ps) : ps \in [1..n -> Parts] }

\* messages that are not multipart, and messages with one img in their HTML
Singles ==
    { Mime(FALSE, <<q>>) : q \in Parts } \cup
    { Mime(m, (IF m THEN <<Part("multipart/mixed", "", <<>>)>> ELSE <<>>)
              \o <<Part("text/html", "", c)>>) : m \in BOOLEAN, c \in ImgContents }

InitBody ==
    /\ rule = <<>>
    /\ rec = Rec(<<>>, <<>>, <<>>, <<>>, None, NowUtc)
    /\ res_pop3 = None
    /\ res_eml = None
    /\ NoRun
    /\ \/ \E m \in Singles : mime = Some(m)
       \/ \E n \in 1..MaxParts : \E m \in Multiparts(n) : mime = Some(m)
    /\ BeautifulSoup \in BOOLEAN
    /\ fields = <<>>
    /\ eml_keys = <<>>
    /\ NoEarlierRun

NextBody == ExtractBody

SpecBody == InitBody /\ [][NextBody]_vars

----------------------------------------------------------------------------
(***************************************************************************)
(* The key of a saved message: make_uidl_for_eml called directly on the    *)
(* files of a folder.                                                      *)
(***************************************************************************)

\* the number of different bodies a file can have
MaxBodies == 4

\* the Message-Id header of a file: none, blank, plain, with blanks around
\* it, and one that reads like a labeled hash
KeyMids ==
    << None, Some(<<" ">>), Some(<<"m">>), Some(<<" ", "m", " ">>), Some(<<"SHA1-", "0">>) >>

\* the bytes of a file, as a number: they hold its header and its body
RawKey(body, mid) == body * Len(KeyMids) + (mid - 1)

KeyMsgs ==
    { Msg(0, FALSE, KeyMids[mid], RawKey(body, mid), "none",
          Rec(<<>>, <<>>, <<>>, <<>>, None, NowUtc)) :
        body \in 0..(MaxBodies - 1), mid \in 1..Len(KeyMids) }

\* uidl = make_uidl_for_eml(raw, msg), for the next file
MakeUidl ==
    /\ prog = "none" /\ Len(eml_keys) < Len(mailbox)
    /\ eml_keys' = Append(eml_keys, make_uidl_for_eml(mailbox[Len(eml_keys) + 1]))
    /\ UNCHANGED <<mime, BeautifulSoup, fields, earlier>>
    /\ UNCHANGED <<engine, batch>>

InitKey ==
    /\ rule = <<>>
    /\ rec = Rec(<<>>, <<>>, <<>>, <<>>, None, NowUtc)
    /\ res_pop3 = None
    /\ res_eml = None
    /\ prog = "none" /\ pc = "idle"
    /\ config = Settings(FALSE, 0, "h", "u", "p")
    /\ mailbox \in [1..2 -> KeyMsgs]
    /\ state_file = {}
    /\ msgno = 0
    /\ already = {}
    /\ processed_local = {}
    /\ csv = <<>>
    /\ log = <<>>
    /\ NoMessage
    /\ NoEarlierRun

NextKey == MakeUidl

SpecKey == InitKey /\ [][NextKey]_vars

----------------------------------------------------------------------------
(* The grammar of the rule language, as a parser that builds the           *)
(* And/Or/Predicate tree without evaluating, and the evaluation of a tree: *)
(* the reference the fused parse_and_eval is compared with.                *)
(*   expr := term (OR term)*   term := factor (AND factor)*                *)
(*   factor := '(' expr ')' | predicate                                    *)

IsPredicate(t) == t.k \in {"SUBJECT", "FROM", "TO", "CC", "DATE"} /\ t.up

TreeOk(tree, idx) == [ok |-> TRUE, tree |-> <<tree>>, idx |-> idx]
TreeFail(idx)     == [ok |-> FALSE, tree |-> <<>>, idx |-> idx]

RECURSIVE TreeExpr(_, _)
RECURSIVE TreeExprLoop(_, _, _)
RECURSIVE TreeTerm(_, _)
RECURSIVE TreeTermLoop(_, _, _)
RECURSIVE TreeFactor(_, _)

TreeExpr(tokens, idx) ==
    LET t == TreeTerm(tokens, idx)
    IN  IF ~t.ok THEN t ELSE TreeExprLoop(tokens, t.tree[1], t.idx)

TreeExprLoop(tokens, left, idx) ==
    IF idx < Len(tokens) /\ tok_is(tokens, idx, "OR")
    THEN LET t == TreeTerm(tokens, idx + 1)
         IN  IF ~t.ok THEN t
             ELSE TreeExprLoop(tokens, [node |-> "Or", l |-> left, r |-> t.tree[1]], t.idx)
    ELSE TreeOk(left, idx)

TreeTerm(tokens, idx) ==
    LET f == TreeFactor(tokens, idx)
    IN  IF ~f.ok THEN f ELSE TreeTermLoop(tokens, f.tree[1], f.idx)

TreeTermLoop(tokens, left, idx) ==
    IF idx < Len(tokens) /\ tok_is(tokens, idx, "AND")
    THEN LET f == TreeFactor(tokens, idx + 1)
         IN  IF ~f.ok THEN f
             ELSE TreeTermLoop(tokens, [node |-> "And", l |-> left, r |-> f.tree[1]], f.idx)
    ELSE TreeOk(left, idx)

TreeFactor(tokens, idx) ==
    IF idx >= Len(tokens) THEN TreeFail(idx)
    ELSE LET tok == tokens[idx + 1] IN
         IF tok.k = "("
         THEN LET e == TreeExpr(tokens, idx + 1)
              IN  IF ~e.ok THEN e
                  ELSE IF e.idx >= Len(tokens) \/ tokens[e.idx + 1].k # ")" THEN TreeFail(e.idx)
                  ELSE TreeOk(e.tree[1], e.idx + 1)
         ELSE IF IsPredicate(tok) THEN TreeOk([node |-> "Predicate", tok |-> tok], idx + 1)
         ELSE TreeFail(idx)

\* the token sequence is a sentence of the grammar
WellFormed(tokens) ==
    LET e == TreeExpr(tokens, 0) IN e.ok /\ e.idx = Len(tokens)

\* the truth value of a predicate for the arguments r of parse_and_eval
PredicateValue(tok, r) ==
    IF tok.k = "SUBJECT" THEN tok.pat.comp = "ok" /\ re_search(tok.pat, r.subject, TRUE)
    ELSE IF tok.k = "FROM" THEN tok.pat.comp = "ok" /\ any_search(tok.pat, r.from_addrs)
    ELSE IF tok.k = "TO" THEN tok.pat.comp = "ok" /\ any_search(tok.pat, r.to_addrs)
    ELSE IF tok.k = "CC" THEN tok.pat.comp = "ok" /\ any_search(tok.pat, r.cc_addrs)
    ELSE eval_date_token(tok, r.mail_dt, r.now).val

RECURSIVE EvalTree(_, _)
EvalTree(tree, r) ==
    IF tree.node = "And" THEN EvalTree(tree.l, r) /\ EvalTree(tree.r, r)
    ELSE IF tree.node = "Or" THEN EvalTree(tree.l, r) \/ EvalTree(tree.r, r)
    ELSE PredicateValue(tree.tok, r)

----------------------------------------------------------------------------
(* Properties of the rule engine                                           *)

\* the outcomes so far, of either copy
Outcomes == { res_pop3[i] : i \in 1..Len(res_pop3) } \cup { res_eml[i] : i \in 1..Len(res_eml) }

Tokens == tokenize(rule)
Args   == filter_args(rec)
ValA   == re_search(PA.pat, rec.subject, TRUE)
ValB   == re_search(PB.pat, rec.subject, TRUE)
ValC   == re_search(PC.pat, rec.subject, TRUE)

RuleAorBandC   == Spaced(<<PA, OR, PB, AND, PC>>)
RuleParenAorB  == Spaced(<<LPAREN, PA, OR, PB, RPAREN, AND, PC>>)

\* C2: AND binds tighter than OR: on the rule 'A OR B AND C' both copies of
\* parse_and_eval return A or (B and C), for every truth assignment of A, B, C.
C2_AndBindsTighter ==
    rule = RuleAorBandC =>
        \A o \in Outcomes : o.exc = "" /\ o.val = (ValA \/ (ValB /\ ValC))

\* C2 witness: both copies have evaluated 'A OR B AND C' with A false, B true,
\* C false, and returned false.
C2_Witness ==
    /\ rule = RuleAorBandC
    /\ ~ValA /\ ValB /\ ~ValC
    /\ res_pop3 # None /\ res_eml # None
    /\ \A o \in Outcomes : o.exc = "" /\ ~o.val

\* C3: parentheses override precedence: on '(A OR B) AND C' both copies return
\* (A or B) and C without raising, for every truth assignment.
C3_ParenthesesOverride ==
    rule = RuleParenAorB =>
        \A o \in Outcomes : o.exc = "" /\ o.val = ((ValA \/ ValB) /\ ValC)

\* C4: for every well-formed token sequence both copies consume all tokens and
\* return the value of the And/Or/Predicate tree of the sequence.
C4_FusedEqualsTree ==
    WellFormed(Tokens) =>
        \A o \in Outcomes :
            /\ o.exc = ""
            /\ o.idx = o.ntok
            /\ o.val = EvalTree(TreeExpr(Tokens, 0).tree[1], Args)

\* C5: every structurally malformed rule makes parse_and_eval raise, for every
\* record, and no token is left unconsumed when a boolean is returned.
C5_MalformedRaises ==
    \A o \in Outcomes :
        /\ (Tokens # <<>> /\ ~WellFormed(Tokens)) => o.exc # ""
        /\ o.exc = "" => o.idx = o.ntok

----------------------------------------------------------------------------
(* Properties of the predicates                                            *)

\* the rule is one DATE comparison / one regex predicate
IsDateRule  == Len(rule) = 1 /\ rule[1].k = "DATE"
IsRegexRule == Len(rule) = 1 /\ rule[1].k \in RegexKinds

\* the Date header is missing or unparseable
NoTimestamp == rec.date = None \/ ~rec.date[1].ok

\* the UTC instant of a Date header, a header without zone read as JST
HdrInstant(h) == Norm(h.d, h.s - ZoneOffset(h.tz))

\* C7: a DATE predicate is false whenever the record has no timestamp (Date
\* header missing or unparseable), for each operator and every right-hand side.
C7_DateFalseWithoutTimestamp ==
    (IsDateRule /\ NoTimestamp) =>
        \A o \in Outcomes : o.exc = "" /\ ~o.val

\* C7 witness: both copies have evaluated 'DATE<NOW-<n>d' with the largest
\* amount against a record without timestamp.
C7_Witness ==
    /\ IsDateRule /\ rec.date = Some(BadDate)
    /\ rule[1].op = "<" /\ rule[1].rhs = RelRhs(BigAmount, "d")
    /\ res_pop3 # None /\ res_eml # None

\* the predicate keyword is spelled as in the grammar and its pattern is not
\* a valid regular expression
IsBadPredicate(t) == t.k \in RegexKinds /\ t.up /\ t.pat.comp # "ok"

HeaderOf(k) == IF k = "FROM" THEN rec.from_ ELSE IF k = "TO" THEN rec.to_ ELSE rec.cc_

\* the bare addresses of a header: of the mailboxes whose addr-spec holds an
\* "@", in order and with repetitions, the addr-spec trimmed and in lower case
BareAddresses(h) ==
    LET kept == SelectSeq(h, LAMBDA mb : has_at(mb.addr))
    IN  [i \in 1..Len(kept) |-> lower_str(strip(kept[i].addr))]

\* C9: a FROM (TO, CC) predicate with a valid pattern is true iff at least one
\* bare lower-case address of the corresponding header matches the pattern by
\* unanchored case-insensitive search; display names are never searched, and
\* the predicate is false for an empty list.
C9_AddressPredicate ==
    (IsRegexRule /\ rule[1].k \in {"FROM", "TO", "CC"} /\ rule[1].pat.comp = "ok") =>
        \A o \in Outcomes :
            LET addrs == BareAddresses(HeaderOf(rule[1].k))
            IN  /\ o.exc = ""
                /\ o.val = (\E i \in 1..Len(addrs) : re_search(rule[1].pat, addrs[i], TRUE))
                /\ (addrs = <<>> => ~o.val)
                /\ extract_addresses_only(HeaderOf(rule[1].k)) = addrs
                /\ eml_extract_addresses_only(HeaderOf(rule[1].k)) = addrs

\* C9 witness: FROM:/@x$/ has been evaluated by both copies on a From header
\* whose only address-like text ending in @x is a display name, and is false.
C9_Witness ==
    /\ rule = <<RegexTok("FROM", TRUE, Pat(<<"@", "x">>, FALSE, TRUE))>>
    /\ rec.from_ = <<Mailbox(<<"b", "@", "x">>, <<"A", "@", "Y">>), Mailbox(<<"a", "@", "x">>, <<"b">>)>>
    /\ res_pop3 # None /\ res_eml # None
    /\ \A o \in Outcomes : o.exc = "" /\ ~o.val

\* the UTC instant n units before the clock reading, by plain arithmetic
PerDay(unit) == IF unit = "d" THEN 1 ELSE IF unit = "h" THEN 24 ELSE 1440
NowMinus(n, unit) ==
    Norm(NowUtc.d - (n \div PerDay(unit)),
         NowUtc.s - (n % PerDay(unit)) * (SecondsPerDay \div PerDay(unit)))
InstantLt(a, b) == a.d < b.d \/ (a.d = b.d /\ a.s < b.s)
InstantCompare(op, a, b) ==
    IF op = ">=" THEN ~InstantLt(a, b)
    ELSE IF op = "<=" THEN ~InstantLt(b, a)
    ELSE IF op = ">" THEN InstantLt(b, a)
    ELSE InstantLt(a, b)

\* C10: for a record with timestamp t, 'DATE<op>NOW-<n><unit>' returns
\* t <op> (now minus n units), for every non-negative integer n.
C10_RelativeDate ==
    (IsDateRule /\ rule[1].rhs.kind = "rel" /\ ~NoTimestamp) =>
        \A o \in Outcomes :
            /\ o.exc = ""
            /\ o.val = InstantCompare(rule[1].op, HdrInstant(rec.date[1]),
                                      NowMinus(rule[1].rhs.n, lower(rule[1].rhs.unit)))

\* the wall clock a Date header shows, in the zone the header is written in
WallClock(h) == [d |-> h.d, s |-> h.s]
\* 00:00:00 of a calendar date
Midnight(y, m, d) == [d |-> ymd2ord(y, m, d), s |-> 0]

\* C11: for a record with a timestamp, 'DATE<op>YYYY-MM-DD' with a date of the
\* calendar compares the wall clock of the message, in the zone of the message,
\* with 00:00:00 of that date: strict and non-strict operators differ at
\* midnight only.
C11_CalendarDateMidnight ==
    (IsDateRule /\ rule[1].rhs.kind = "date" /\ ~NoTimestamp
       /\ valid_ymd(rule[1].rhs.y, rule[1].rhs.m, rule[1].rhs.d)) =>
        \A o \in Outcomes :
            /\ o.exc = ""
            /\ o.val = InstantCompare(rule[1].op, WallClock(rec.date[1]),
                                      Midnight(rule[1].rhs.y, rule[1].rhs.m, rule[1].rhs.d))

\* C11 witness: 'DATE<2024-01-01' was evaluated by both copies against a
\* message timestamped 2023-12-31T23:59 -05:00, and is true
C11_Witness ==
    /\ rule = <<DateTok(TRUE, "<", DateRhs(2024, 1, 1))>>
    /\ rec.date = Some(DateHdr(ymd2ord(2023, 12, 31), 86340, Some(-18000)))
    /\ res_pop3 # None /\ res_eml # None
    /\ \A o \in Outcomes : o.exc = "" /\ o.val

\* the rule without its runs of characters that hold no token shape
RECURSIVE DropJunk(_)
DropJunk(chunks) ==
    IF chunks = <<>> THEN <<>>
    ELSE IF Head(chunks) = JUNK THEN DropJunk(Tail(chunks))
    ELSE <<Head(chunks)>> \o DropJunk(Tail(chunks))

\* two calls of parse_and_eval end alike: the same value, or the same exception
SameResult(a, b) == a.val = b.val /\ a.exc = b.exc

HasJunk == \E k \in 1..Len(rule) : rule[k] = JUNK

\* a run that stands right after a DATE comparison, with no blank between
JunkAfterDate ==
    \E k \in 2..Len(rule) : rule[k] = JUNK /\ rule[k - 1].k = "DATE"

\* C12: a run of characters that holds no token shape, put between two
\* whitespace-separated tokens of a rule, is dropped by tokenize: both copies
\* of parse_and_eval give what they give for the rule without the run.
C12_JunkIsDropped ==
    HasJunk =>
        /\ res_pop3 # None =>
               SameResult(res_pop3[1], parse_and_eval(DropJunk(rule), filter_args(rec)))
        /\ res_eml # None =>
               SameResult(res_eml[1], eml_parse_and_eval(DropJunk(rule), eml_filter_args(rec)))

\* the same for the runs that do not stand right after a DATE comparison
C12_JunkApartFromDateIsDropped ==
    (HasJunk /\ ~JunkAfterDate) =>
        /\ res_pop3 # None =>
               SameResult(res_pop3[1], parse_and_eval(DropJunk(rule), filter_args(rec)))
        /\ res_eml # None =>
               SameResult(res_eml[1], eml_parse_and_eval(DropJunk(rule), eml_filter_args(rec)))

----------------------------------------------------------------------------
(***************************************************************************)
(* Properties of the batch                                                 *)
(***************************************************************************)

\* the rule of the run is empty or holds nothing but whitespace
IsBlankRule == \A k \in 1..Len(rule) : rule[k] = WS

\* the messages in the order the loop visits them, and the first it visits
Visited == IF prog = "eml" THEN sorted(mailbox) ELSE mailbox
FirstVisited ==
    IF prog = "pop3" /\ Len(mailbox) - config.max_fetch + 1 > 1
    THEN Len(mailbox) - config.max_fetch + 1 ELSE 1

\* message n has been passed by the loop
Handled(n) == pc \in {"loop", "done"} /\ n \in FirstVisited..(msgno - 1)

\* message n is left alone because its key was in the state file
DedupeSkipped(n) ==
    prog = "pop3" /\ config.local_dedupe /\ uidl_of(mailbox, n) \in already

\* evaluating the rule of the run against message n raises
FilterRaises(n) ==
    /\ strip_rule(rule) # <<>>
    /\ IF prog = "eml"
       THEN eml_parse_and_eval(strip_rule(rule), eml_filter_args(Visited[n])).exc # ""
       ELSE parse_and_eval(strip_rule(rule), filter_args(Visited[n])).exc # ""

HasRow(n) == \E k \in 1..Len(csv) : csv[k].n = n
HasEvent(what, n) == \E k \in 1..Len(log) : log[k] = Ev(what, n)

\* C1: with an empty or whitespace-only rule, parse_and_eval returns true for
\* every record, and the batch writes a row for every message it visits that
\* is retrieved, parsed and extracted without failure (and that local
\* deduplication does not hold back).
C1_BlankRuleIncludesAll ==
    IsBlankRule =>
        /\ res_pop3 # None => (res_pop3[1].exc = "" /\ res_pop3[1].val)
        /\ res_eml # None => (res_eml[1].exc = "" /\ res_eml[1].val)
        /\ \A n \in 1..Len(mailbox) :
               (Handled(n) /\ Visited[n].fail = "none" /\ ~DedupeSkipped(n)) => HasRow(n)

\* a finished run with a whitespace-only rule that wrote a row for each of its messages
C1_Witness ==
    /\ rule = <<WS>>
    /\ pc = "done"
    /\ Len(mailbox) = MaxMsgs
    /\ Len(csv) = MaxMsgs
    /\ \E n \in 1..Len(mailbox) : mailbox[n].subject = <<>>

\* the pass of the loop over a message whose rule cannot be evaluated
FailClosedStep ==
    (/\ pc = "loop" /\ msgno <= Len(mailbox)
     /\ ~DedupeSkipped(msgno)
     /\ Visited[msgno].fail # "retr"
     /\ FilterRaises(msgno))
    => /\ csv' = csv
       /\ processed_local' = processed_local
       /\ log' = Append(log, Ev("warn_filter", msgno))
       /\ msgno' = msgno + 1
       /\ pc' = "loop"

\* C6: fail-closed, in both tools.  When evaluating the rule of the run
\* against a message raises, the pass over that message writes no row, records
\* no key as processed, reports one filter warning and moves on to the next
\* message; and at no later time is there a row for that message or is its key
\* among the processed ones.
C6_FailClosed ==
    /\ [][FailClosedStep]_vars
    /\ [](\A n \in 1..Len(mailbox) :
              (Handled(n) /\ ~DedupeSkipped(n) /\ Visited[n].fail # "retr" /\ FilterRaises(n))
              => /\ ~HasRow(n)
                 /\ prog = "pop3" => uidl_of(mailbox, n) \notin processed_local
                 /\ HasEvent("warn_filter", n))

\* a finished run under the rule "(A AND B": the first message was refused with
\* a warning, and the loop went on to the second
C6_Witness ==
    /\ rule = Spaced(<<LPAREN, PA, AND, PB>>)
    /\ pc = "done"
    /\ Len(mailbox) = MaxMsgs
    /\ mailbox[1].fail = "none"
    /\ HasEvent("warn_filter", 1)
    /\ HasEvent("warn_filter", MaxMsgs)
    /\ csv = <<>>

\* the failure of message n was reported
Reported(n) == HasEvent("warn_message", n) \/ HasEvent("warn_filter", n)

\* the pass of the loop over any message stays in the loop and moves on to the
\* next message
StaysInLoop ==
    (pc = "loop" /\ msgno <= Len(mailbox)) => (pc' = "loop" /\ msgno' = msgno + 1)

\* C13: a failure while handling one message never aborts the batch, in both
\* tools.  Every pass of the loop ends in the loop at the next message; a
\* message that failed to be retrieved or parsed, or whose rule could not be
\* evaluated, is reported and has no row; and a run that entered the loop
\* reaches the end of its range, having passed every message of the range.
C13_BatchNeverAborted ==
    /\ [][StaysInLoop]_vars
    /\ [](\A n \in 1..Len(mailbox) :
              (Handled(n) /\ ~DedupeSkipped(n) /\ (Visited[n].fail = "retr" \/ FilterRaises(n)))
              => (Reported(n) /\ ~HasRow(n)))
    /\ (pc = "loop") ~> (pc = "done" /\ msgno = Len(mailbox) + 1)

\* a finished run whose first message could not be retrieved: it was reported,
\* and the second message has its row
C13_Witness ==
    /\ pc = "done"
    /\ Len(mailbox) = MaxMsgs
    /\ Visited[1].fail = "retr"
    /\ HasEvent("warn_message", 1)
    /\ ~HasRow(1)
    /\ HasRow(MaxMsgs)

\* the pass of the loop at most appends one row, the row of the message it is at
AppendsOnly ==
    csv' # csv => /\ pc = "loop"
                  /\ csv' = Append(csv, csv'[Len(csv')])
                  /\ csv'[Len(csv')].n = msgno

\* C14: the rows of the CSV are in the order of the messages - ascending
\* message number in getMailDataCsv.py, ascending path in
\* getMailDataCsvFromEml.py - with at most one row per message: a row is only
\* ever appended, by the pass over its message, and of two rows the earlier is
\* that of the message with the smaller number (the smaller path).
C14_RowsInOrder ==
    /\ [][AppendsOnly]_vars
    /\ [](\A k, l \in 1..Len(csv) :
              k < l => /\ csv[k].n < csv[l].n
                       /\ prog = "eml" => Visited[csv[k].n].id < Visited[csv[l].n].id)

\* a finished run over two files found in the reverse order of their paths,
\* with a row for each: the first row is that of the smaller path
C14_Witness ==
    /\ prog = "eml" /\ pc = "done"
    /\ Len(mailbox) = 2 /\ mailbox[1].id > mailbox[2].id
    /\ Len(csv) = 2
    /\ csv[1].uidl = make_uidl_for_eml(mailbox[2])
    /\ csv[1].uidl # csv[2].uidl

\* C15: a run of getMailDataCsv.py with an empty host, user or password ends
\* at its first step with exit status 1, having written the error to stderr
\* and done nothing else: no output directory, no connection, no state file
\* read, no CSV, no message passed.
C15_MissingSettingIsFatal ==
    (prog = "pop3" /\ pc # "start" /\
     (config.POP3_HOST = "" \/ config.POP3_USER = "" \/ config.POP3_PASS = ""))
    => /\ pc = "exit"
       /\ log = <<Ev("stderr_missing", 0), Ev("exit", 1)>>
       /\ csv = <<>>
       /\ msgno = 0
       /\ already = {}
       /\ processed_local = {}

\* a run that ended so over a mailbox with messages, with only the password empty
C15_Witness ==
    /\ prog = "pop3" /\ pc = "exit"
    /\ config.POP3_HOST # "" /\ config.POP3_USER # "" /\ config.POP3_PASS = ""
    /\ Len(mailbox) = MaxMsgs
    /\ HasEvent("exit", 1)

----------------------------------------------------------------------------
(***************************************************************************)
(* Properties of the body extraction                                       *)
(***************************************************************************)

\* the parts of the message that are not attachments and have the type ctype,
\* in document order; the whole message counts as one part if not multipart
NonAttachment(ctype) ==
    SelectSeq(mime[1].parts, LAMBDA q : q.disp # "attachment" /\ q.ctype = ctype)

\* the content of the first of them, None when there is none
FirstOf(ctype) ==
    IF NonAttachment(ctype) = <<>> THEN None ELSE Some(Head(NonAttachment(ctype)).content)

\* the candidates the first-wins rule gives: the (trimmed) first text/plain and
\* the first text/html among the parts that are not attachments
FirstWins ==
    /\ fields[1].text_body =
           (IF FirstOf("text/plain") = None THEN None
            ELSE Some(str_strip(FirstOf("text/plain")[1])))
    /\ fields[1].html_raw = FirstOf("text/html")

\* C16: after the extraction the text candidate is the content of the first
\* text/plain part that is not an attachment and the html candidate that of
\* the first such text/html part, none when there is no such part - whether
\* the message is multipart or is itself the single part.
C16_FirstWins == fields # <<>> => FirstWins

\* the same for multipart messages only
C16_FirstWinsMultipart == (fields # <<>> /\ mime[1].multipart) => FirstWins

\* C17: whenever the message has a text/plain part that is not an attachment,
\* the text field is the trimmed content of the first such part; text derived
\* from the HTML is used only when there is no such part.
C17_PlainTextPriority ==
    (fields # <<>> /\ FirstOf("text/plain") # None)
    => fields[1].text = str_strip(FirstOf("text/plain")[1])

\* the same when the trimmed content of that part is not empty
C17_NonEmptyPlainTextPriority ==
    (fields # <<>> /\ FirstOf("text/plain") # None /\ str_strip(FirstOf("text/plain")[1]) # <<>>)
    => fields[1].text = str_strip(FirstOf("text/plain")[1])

\* the width or the height of the img parses to an integer <= 1
IsTrackingPixel(n) ==
    \/ n.w # None /\ int_parses(n.w[1]) /\ int(n.w[1]) <= 1
    \/ n.h # None /\ int_parses(n.h[1]) /\ int(n.h[1]) <= 1

Imgs(html) == { html[j] : j \in { j \in 1..Len(html) : html[j].k = "img" } }
Holds(html, n) == \E j \in 1..Len(html) : html[j] = n

\* C18: of the img elements of the HTML candidate, those whose width or
\* height parses to an integer <= 1 are neither in the html field nor in the
\* text field, and the others are in the html field - with or without
\* BeautifulSoup.
C18_TrackingPixelsRemoved ==
    (fields # <<>> /\ fields[1].html_raw # None)
    => \A n \in Imgs(fields[1].html_raw[1]) :
           IF IsTrackingPixel(n)
           THEN ~Holds(fields[1].html, n) /\ ~Holds(fields[1].text, n)
           ELSE Holds(fields[1].html, n)

\* the same for BeautifulSoup and an img whose width and height are both
\* integers other than 0, or absent
C18_NonZeroPixelsRemoved ==
    (fields # <<>> /\ fields[1].html_raw # None /\ BeautifulSoup)
    => \A n \in Imgs(fields[1].html_raw[1]) :
           (int_parses(img_get(n.w)) /\ int_parses(img_get(n.h)) /\ n.w # Some("0") /\ n.h # Some("0"))
           => IF IsTrackingPixel(n)
              THEN ~Holds(fields[1].html, n) /\ ~Holds(fields[1].text, n)
              ELSE Holds(fields[1].html, n)

----------------------------------------------------------------------------
(***************************************************************************)
(* Properties of the state file                                            *)
(***************************************************************************)

\* how often the run did what
Count(what) == Cardinality({ k \in 1..Len(log) : log[k].ev = what })

\* a run of getMailDataCsv.py with local deduplication that found keys in the
\* state file
ReadsState == prog = "pop3" /\ config.local_dedupe /\ already # {}

\* C19: a run with local deduplication that found a state file has read it
\* once and not written it while it is in the loop, and has read it once and
\* written it once when it is done.
C19_StateReadOnceWrittenOnce ==
    ReadsState =>
        /\ pc = "loop" => (Count("read_state") = 1 /\ Count("write_state") = 0)
        /\ pc = "done" => (Count("read_state") = 1 /\ Count("write_state") = 1)

\* the part of it that is about the loop: the file is read once before the
\* loop, neither read nor written in it, and after the loop written at most
\* once, after at most one more read
C19_NoStateAccessInLoop ==
    ReadsState =>
        /\ pc = "loop" => (Count("read_state") = 1 /\ Count("write_state") = 0)
        /\ pc = "done" => (Count("read_state") \in {1, 2} /\ Count("write_state") \in {0, 1})

----------------------------------------------------------------------------------------------------------------------------------------
(***************************************************************************)
(* Properties of the spelling of a rule                                    *)
(***************************************************************************)

\* the rule with every keyword written in upper case
UpperCased(chunks) ==
    [k \in 1..Len(chunks) |->
        IF "up" \in DOMAIN chunks[k] THEN upper_tok(chunks[k]) ELSE chunks[k]]

\* C21: a rule with keywords (AND, OR, SUBJECT, FROM, TO, CC, DATE, NOW) in
\* lower or mixed case gives, for every record and in both tools, the outcome
\* of the same rule written in upper case: the same boolean, or both raise.
C21_KeywordsAnyCase ==
    /\ res_pop3 # None =>
           SameResult(res_pop3[1], parse_and_eval(UpperCased(rule), filter_args(rec)))
    /\ res_eml # None =>
           SameResult(res_eml[1], eml_parse_and_eval(UpperCased(rule), eml_filter_args(rec)))

\* the rule without its parentheses
RECURSIVE Unparenthesized(_)
Unparenthesized(chunks) ==
    IF chunks = <<>> THEN <<>>
    ELSE IF Head(chunks) \in {LPAREN, RPAREN} THEN Unparenthesized(Tail(chunks))
    ELSE <<Head(chunks)>> \o Unparenthesized(Tail(chunks))

\* the rule holds a DATE predicate in parentheses with no blank around it: "(DATE>=2024-01-01)"
HasGluedDate ==
    \E k \in 2..(Len(rule) - 1) :
        rule[k - 1] = LPAREN /\ rule[k].k = "DATE" /\ rule[k + 1] = RPAREN

\* C22: in a rule such as '(DATE>=2024-01-01) AND SUBJECT:/x/' the ')'
\* written directly after the date value is a closing-parenthesis token and
\* not part of the DATE value: the rule does not raise and evaluates like
\* 'DATE>=2024-01-01 AND SUBJECT:/x/'.
C22_GluedParenthesisClosesDate ==
    (HasGluedDate /\ res_pop3 # None) =>
        /\ res_pop3[1].exc = ""
        /\ SameResult(res_pop3[1], parse_and_eval(Unparenthesized(rule), filter_args(rec)))

------------------------------------------------------------\* the ValueErrors parse_factor raises for a rule that is not well formed
StructuralErrors ==
    { "ValueError: Unexpected end of filter rule",
      "ValueError: Missing closing parenthesis in filter rule",
      "ValueError: Unexpected token" }

\* the call ended in a structural error
RaisesStructural(o) == o.exc \in StructuralErrors

\* C25: whether parse_and_eval raises a structural error depends on the rule
\* only: for every other record, the call raises one exactly if it does for
\* the record at hand, in getMailDataCsv.py and in getMailDataCsvFromEml.py.
C25_RaisingIndependentOfRecord ==
    \A other \in SubjectRecords :
        /\ res_pop3 # None =>
               (RaisesStructural(res_pop3[1])
                   <=> RaisesStructural(parse_and_eval(rule, filter_args(other))))
        /\ res_eml # None =>
               (RaisesStructural(res_eml[1])
                   <=> RaisesStructural(eml_parse_and_eval(rule, eml_filter_args(other))))

\* the same for getMailDataCsv.py alone
C25_Pop3RaisingIndependentOfRecord ==
    \A other \in SubjectRecords :
        res_pop3 # None =>
            (RaisesStructural(res_pop3[1])
                <=> RaisesStructural(parse_and_eval(rule, filter_args(other))))

----------------
(***************************************************************************)
(* Properties of runs with local deduplication                             *)
(***************************************************************************)

\* the keys of the rows the run has written
RowKeys == { csv[k].uidl : k \in 1..Len(csv) }

\* the step is the end of a run of getMailDataCsv.py
EndOfRun == prog = "pop3" /\ pc = "loop" /\ pc' = "done"

\* C23: with local deduplication, the state file after a run holds the keys
\* it held before the run and the keys of the messages whose row the run
\* wrote, and no others: no key is lost, and the key of a message that was
\* filtered out, failed or was skipped as a duplicate is not newly added; at
\* no other time does the state file change.
C23_StateGrowsByWrittenRows ==
    [][config.local_dedupe =>
          IF EndOfRun
          THEN /\ state_file' = state_file \cup RowKeys
               /\ \A n \in 1..Len(mailbox) :
                      ~HasRow(n) => uidl_of(mailbox, n) \notin (state_file' \ state_file)
          ELSE state_file' = state_file]_vars

\* a second run is done: it found keys in the state file, passed a message
\* that it did not write and that is no duplicate, and wrote a row for a
\* message whose key the state file did not hold
C23_Witness ==
    /\ prog = "pop3" /\ pc = "done" /\ config.local_dedupe
    /\ Len(earlier) = 1
    /\ already # {}
    /\ \E n \in 1..Len(mailbox) : Handled(n) /\ ~HasRow(n) /\ ~DedupeSkipped(n)
    /\ ~(RowKeys \subseteq already)
    /\ state_file = already \cup RowKeys

\* an earlier run wrote a row for the message id
WrittenEarlier(id) ==
    \E r \in 1..Len(earlier) :
        \E k \in 1..Len(earlier[r].csv) : earlier[r].box[earlier[r].csv[k].n].id = id

\* C24: with local deduplication, a message that a run skips as already
\* processed is a message for which an earlier run wrote a row; a message
\* that was never written - one without a UIDL, under its key 'NOUIDL-<n>',
\* included - is never skipped.
C24_SkippedOnlyIfWritten ==
    \A n \in 1..Len(mailbox) :
        (Handled(n) /\ DedupeSkipped(n)) => WrittenEarlier(mailbox[n].id)

\* the same for the messages the server lists a UIDL for
C24_SkippedWithUidlOnlyIfWritten ==
    \A n \in 1..Len(mailbox) :
        (Handled(n) /\ DedupeSkipped(n) /\ mailbox[n].has_uidl) => WrittenEarlier(mailbox[n].id)

----------------
(***************************************************************************)
(* Properties of the key of a saved message                                *)
(***************************************************************************)

\* the file has a Message-Id header that is not empty
HasMessageId(m) == m.mid # None /\ strip(m.mid[1]) # <<>>

\* C20: the key of a file is the value of its Message-Id header when it has
\* one that is not empty, and otherwise 'SHA1-' followed by the hex digest of
\* its bytes; two files without Message-Id have the same key only if their
\* bytes have the same digest.
C20_EmlIdentityKey ==
    /\ \A k \in 1..Len(eml_keys) :
           IF HasMessageId(mailbox[k])
           THEN eml_keys[k] = strip(mailbox[k].mid[1])
           ELSE /\ Head(eml_keys[k]) = "SHA1-"
                /\ Tail(eml_keys[k]) = sha1(mailbox[k].raw)
    /\ \A j, k \in 1..Len(eml_keys) :
           (~HasMessageId(mailbox[j]) /\ ~HasMessageId(mailbox[k]) /\ eml_keys[j] = eml_keys[k])
           => sha1(mailbox[j].raw) = sha1(mailbox[k].raw)

\* two files without a Message-Id (one has none, one a blank one), of
\* different bytes with the same digest: both have the same labeled key
C20_Witness ==
    /\ Len(eml_keys) = 2
    /\ mailbox[1].mid = None /\ mailbox[2].mid = Some(<<" ">>)
    /\ mailbox[1].raw # mailbox[2].raw
    /\ eml_keys[1] = eml_keys[2]
    /\ Head(eml_keys[1]) = "SHA1-"

====
